---- MODULE Spec2Model ----
(***************************************************************************)
(* A model of the table reconstruction and field inference engine of the   *)
(* PAGASA bulletin scraper: HeaderMatcher, TableParser, DataExtractor,     *)
(* the signal and rainfall text extractors and the advisory tokenizer.     *)
(*                                                                         *)
(* Text is a sequence of one-character strings.  None is the value NULL, a *)
(* one-element sequence no text can equal.  A confidence is a rational     *)
(* <<n, d>> (d > 0), compared by cross-multiplication.                     *)
(***************************************************************************)
EXTENDS Integers, Sequences, FiniteSets, TLC

VARIABLES
    hm_text,      \* HeaderMatcher.match: the text argument
    hm_aliases,   \* HeaderMatcher.match: the alias list
    hm_out,       \* HeaderMatcher.match: the returned confidence, NoConf before the call
    sc_obj,       \* TableParser._strip_confidence: the argument
    sc_out,       \* its result
    sc_again,     \* the result of _strip_confidence applied to sc_out
    fe_rows,      \* TableParser.flattened_tables: the original rows, in order
    fe_out,       \* the result of _extract_simple_field, NoField before the call
    fv_pos,       \* DataExtractor._find_value: the arguments <<r, c>>
    fv_out,       \* its result
    pl_valid,     \* RainfallAdvisoryExtractor.valid_locations
    pl_text,      \* parse_locations_text: the text argument
    pl_out,       \* its result, NoParse before the call
    rf_section,   \* RainfallWarningExtractor._parse_rainfall_section: the section
    rf_out,       \* its result, NoRainfall before the call
    sg_rows,      \* TableParser.flattened_tables for _extract_signals: the original rows
    sg_col_map,   \* _extract_signals: col_map, 0 for a region without a column
    sg_i,         \* the index of the row the second loop is at
    sg_extracted, \* extracted: signal number -> record
    tb_text,      \* TyphoonBulletinExtractor.extract_from_pdf: full_text
    tb_is_format1, \* _parse_signal_table: is_format1, "unset" while it has none
    tb_signals,   \* signals_by_level, <<>> before extract_signals
    tb_rainfall,  \* rainfall_by_level, <<>> before extract_rainfall_warnings
    tb_result,    \* the signal and rainfall tags of the result, <<>> before it is built
    mt_objects,   \* the regions the detector returns for the page image
    mt_words,     \* the tokens of the page: text and box
    mt_rows,      \* the "table row" regions, sorted by centre
    mt_cols,      \* the "table column" regions, sorted by centre
    mt_grid,      \* the grid of cell texts
    mt_w,         \* the number of tokens that have been dealt with
    mt_all_tables, \* the page grids the pipeline keeps
    lm_rows,      \* the rows of the reference table (consolidated_locations.csv)
    lm_i,         \* the number of rows that have been read
    lm_grouped,   \* grouped: name key, priority and island group, in insertion order
    lm_location_dict, \* location_dict: name key and island group, in insertion order
    lm_island_groups_dict, \* island_groups_dict: the name keys of each island group
    lm_location_name, \* the argument of find_island_group
    lm_result,    \* what find_island_group returns
    tk_valid,     \* RainfallAdvisoryExtractor.valid_locations
    tk_text,      \* parse_locations_text: the text argument
    tk_parts,     \* parts, the comma-separated tokens of the text
    tk_out,       \* the result of the call, NoParse before it returns
    dt_field,     \* what _extract_simple_field("updated_datetime") returned
    dt_clean_val, \* clean_val
    dt_tried,     \* the formats strptime has been called with, in order
    dt_dt,        \* dt: the parsed time, NoTime while there is none
    dt_result,    \* the result of _extract_datetime
    ex_url,       \* extract_from_url: the kind of source the url names
    ex_site,      \* what the network and the files answer: link, download, pdf, advisory segments
    ex_pdf_url,   \* pdf_url, FALSE while none
    ex_pdf_path,  \* pdf_path, FALSE while none
    ex_warnings,  \* warnings, NoWarnings while None
    ex_source_type, \* source_type, "" while None
    ex_calls,     \* the extractors that have been invoked, in order
    ex_result,    \* the result of extract_from_url, <<>> before it returns
    wi_text,      \* the text argument of the RainfallWarningExtractor method that is called
    wi_parts,     \* what _split_locations_respecting_parentheses returns, <<>> before it does
    wi_result,    \* what _parse_locations_with_islands returns, <<>> before it does
    pp_analysis,  \* what analyze_pdf is going to return for the source
    pp_scrape,    \* what scrape_and_extract is going to do: raise, or return a result
    pp_pdf_future, \* pdf_future: done, and the value of the task
    pp_advisory_future, \* advisory_future: done, and the value of the task
    pp_finished,  \* the tasks that have finished, in the order they did
    pp_pdf_data,  \* pdf_data, NoData while None
    pp_advisory_data, \* advisory_data, NoData while None
    pp_result,    \* what analyze_pdf_and_advisory_parallel returns, Unset before it does
    pc            \* the position of the running call

hmVars == <<hm_text, hm_aliases, hm_out>>

scVars == <<sc_obj, sc_out, sc_again>>

feVars == <<fe_rows, fe_out, fv_pos, fv_out>>

plVars == <<pl_valid, pl_text, pl_out>>

rfVars == <<rf_section, rf_out>>

sgVars == <<sg_rows, sg_col_map, sg_i, sg_extracted>>

tbVars == <<tb_text, tb_is_format1, tb_signals, tb_rainfall, tb_result>>

mtVars == <<mt_objects, mt_words, mt_rows, mt_cols, mt_grid, mt_w, mt_all_tables>>

lmVars == <<lm_rows, lm_i, lm_grouped, lm_location_dict, lm_island_groups_dict, lm_location_name, lm_result>>

tkVars == <<tk_valid, tk_text, tk_parts, tk_out>>

dtVars == <<dt_field, dt_clean_val, dt_tried, dt_dt, dt_result>>

exVars == <<ex_url, ex_site, ex_pdf_url, ex_pdf_path, ex_warnings, ex_source_type, ex_calls, ex_result>>

wiVars == <<wi_text, wi_parts, wi_result>>

ppVars == <<pp_analysis, pp_scrape, pp_pdf_future, pp_advisory_future, pp_finished, pp_pdf_data, pp_advisory_data, pp_result>>

vars == <<hm_text, hm_aliases, hm_out, sc_obj, sc_out, sc_again, fe_rows,
          fe_out, fv_pos, fv_out, pl_valid, pl_text, pl_out, rf_section,
          rf_out, sg_rows, sg_col_map, sg_i, sg_extracted, tb_text,
          tb_is_format1, tb_signals, tb_rainfall, tb_result, mt_objects,
          mt_words, mt_rows, mt_cols, mt_grid, mt_w, mt_all_tables, lm_rows,
          lm_i, lm_grouped, lm_location_dict, lm_island_groups_dict,
          lm_location_name, lm_result, tk_valid, tk_text, tk_parts, tk_out,
          dt_field, dt_clean_val, dt_tried, dt_dt, dt_result, ex_url,
          ex_site, ex_pdf_url, ex_pdf_path, ex_warnings, ex_source_type,
          ex_calls, ex_result, wi_text, wi_parts, wi_result, pp_analysis,
          pp_scrape, pp_pdf_future, pp_advisory_future, pp_finished,
          pp_pdf_data, pp_advisory_data, pp_result, pc>>

----------------------------------------------------------------------------
(* Text *)

NULL == <<"<None>">>

UPPER == <<"A","B","C","D","E","F","G","H","I","J","K","L","M",
           "N","O","P","Q","R","S","T","U","V","W","X","Y","Z">>

LOWER == <<"a","b","c","d","e","f","g","h","i","j","k","l","m",
           "n","o","p","q","r","s","t","u","v","w","x","y","z">>

Min(a, b) == IF a <= b THEN a ELSE b

Max(a, b) == IF a >= b THEN a ELSE b

\* body(v) for the value v of an expression, which is evaluated once
With(v, body(_)) == CHOOSE r \in {body(x) : x \in {v}} : TRUE

\* str.lower() on one character
LowerChar(c) ==
    IF \E i \in 1..Len(UPPER) : UPPER[i] = c
    THEN LOWER[CHOOSE i \in 1..Len(UPPER) : UPPER[i] = c]
    ELSE c

ToLower(s) == [i \in 1..Len(s) |-> LowerChar(s[i])]

\* the regex class \s, and what str.strip() removes
IsSpace(c) == c \in {" ", "\n", "\t", "\r"}

RECURSIVE LStrip(_)
LStrip(s) == IF s # <<>> /\ IsSpace(Head(s)) THEN LStrip(Tail(s)) ELSE s

RECURSIVE RStrip(_)
RStrip(s) ==
    IF s # <<>> /\ IsSpace(s[Len(s)]) THEN RStrip(SubSeq(s, 1, Len(s) - 1)) ELSE s

\* str.strip()
Strip(s) == RStrip(LStrip(s))

\* re.sub(r'\s+', ' ', s)
RECURSIVE CollapseWs(_)
CollapseWs(s) ==
    LET ws == {i \in 1..Len(s) : IsSpace(s[i])}
        first == CHOOSE i \in ws : \A k \in ws : i <= k
    IN  IF ws = {} THEN s
        ELSE SubSeq(s, 1, first - 1) \o <<" ">>
                 \o CollapseWs(LStrip(SubSeq(s, first, Len(s))))

\* needle in hay (Python's substring test; the empty text is in every text)
Contains(hay, needle) ==
    \E i \in 1..(Len(hay) - Len(needle) + 1) :
        SubSeq(hay, i, i + Len(needle) - 1) = needle

\* hay.startswith(prefix)
StartsWith(hay, prefix) ==
    /\ Len(prefix) <= Len(hay)
    /\ SubSeq(hay, 1, Len(prefix)) = prefix

\* every text of length at most n over the characters of alphabet
RECURSIVE TextsUpTo(_, _)
TextsUpTo(alphabet, n) ==
    IF n = 0 THEN {<<>>}
    ELSE LET shorter == TextsUpTo(alphabet, n - 1)
         IN  shorter \cup {<<c>> \o t : c \in alphabet, t \in {u \in shorter : Len(u) = n - 1}}

----------------------------------------------------------------------------
(* Confidences *)

Zero == <<0, 1>>

One == <<1, 1>>

NoConf == <<-1, 1>>

RatGT(p, q) == p[1] * q[2] > q[1] * p[2]

RatEq(p, q) == p[1] * q[2] = q[1] * p[2]

RatGE(p, q) == RatGT(p, q) \/ RatEq(p, q)

RatMax(p, q) == IF RatGT(q, p) THEN q ELSE p

RatMul(p, q) == <<p[1] * q[1], p[2] * q[2]>>

----------------------------------------------------------------------------
(* HeaderMatcher *)

normalize(text) ==
    IF text = <<>> THEN <<>> ELSE ToLower(Strip(CollapseWs(text)))

\* difflib's find_longest_match over whole texts: the longest common block,
\* the earliest in a, then the earliest in b; <<0, 0, 0>> when there is none
find_longest_match(a, b) ==
    LET blocks == {m \in (1..Len(a)) \X (1..Len(b)) \X (1..Min(Len(a), Len(b))) :
                      /\ m[1] + m[3] - 1 <= Len(a)
                      /\ m[2] + m[3] - 1 <= Len(b)
                      /\ SubSeq(a, m[1], m[1] + m[3] - 1) = SubSeq(b, m[2], m[2] + m[3] - 1)}
    IN  IF blocks = {} THEN <<0, 0, 0>>
        ELSE CHOOSE m \in blocks :
                \A o \in blocks :
                    \/ m[3] > o[3]
                    \/ m[3] = o[3] /\ m[1] < o[1]
                    \/ m[3] = o[3] /\ m[1] = o[1] /\ m[2] <= o[2]

\* difflib's get_matching_blocks, summed: the block, then the texts left of
\* it and the texts right of it
RECURSIVE matching_size(_, _)
matching_size(a, b) ==
    IF a = <<>> \/ b = <<>> THEN 0
    ELSE LET m == find_longest_match(a, b)
         IN  IF m[3] = 0 THEN 0
             ELSE m[3]
                  + matching_size(SubSeq(a, 1, m[1] - 1), SubSeq(b, 1, m[2] - 1))
                  + matching_size(SubSeq(a, m[1] + m[3], Len(a)),
                                  SubSeq(b, m[2] + m[3], Len(b)))

\* SequenceMatcher(None, a, b).ratio()
ratio(a, b) ==
    IF Len(a) + Len(b) = 0 THEN One
    ELSE <<2 * matching_size(a, b), Len(a) + Len(b)>>

FuzzyFloor == <<6, 10>>

\* the loop of HeaderMatcher.match from alias number k on, with the running
\* best fuzzy ratio
RECURSIVE match_from(_, _, _, _)
match_from(norm_text, aliases, k, best_ratio) ==
    IF k > Len(aliases)
    THEN IF RatGT(best_ratio, FuzzyFloor) THEN best_ratio ELSE Zero
    ELSE LET norm_alias == normalize(aliases[k])
         IN  IF norm_text = norm_alias THEN One
             ELSE IF StartsWith(norm_text, norm_alias) THEN <<9, 10>>
             ELSE IF Contains(norm_text, norm_alias) \/ Contains(norm_alias, norm_text)
                  THEN <<8 * Min(Len(norm_alias), Len(norm_text)),
                         10 * Max(Len(norm_alias), Len(norm_text))>>
             ELSE match_from(norm_text, aliases, k + 1,
                             RatMax(best_ratio, ratio(norm_text, norm_alias)))

\* match with the text left as given (not normalized)
match_raw_text(text, aliases) == match_from(text, aliases, 1, Zero)

match(text, aliases) == match_from(normalize(text), aliases, 1, Zero)

----------------------------------------------------------------------------
(* The components a specification does not run stay idle *)

NoObj == [kind |-> "scalar", sval |-> "", items |-> <<>>]

IdleHeader == hm_text = <<>> /\ hm_aliases = <<>> /\ hm_out = NoConf

IdleStrip == sc_obj = NoObj /\ sc_out = NoObj /\ sc_again = NoObj

NoField == [value |-> NULL, confidence |-> NoConf]

IdleField == fe_rows = <<>> /\ fe_out = NoField /\ fv_pos = <<0, 0>> /\ fv_out = NULL

NoParse == [locations |-> <<>>, stopped |-> FALSE, kept |-> 0]

IdleLocations == pl_valid = {} /\ pl_text = <<>> /\ pl_out = NoParse

NoRainfall == <<>>

IdleRainfall == rf_section = <<>> /\ rf_out = NoRainfall

NoColumns == [Luzon |-> 0, Visayas |-> 0, Mindanao |-> 0]

IdleSignals ==
    sg_rows = <<>> /\ sg_col_map = NoColumns /\ sg_i = 0 /\ sg_extracted = <<>>

IdleBulletin ==
    /\ tb_text = <<>> /\ tb_is_format1 = "unset" /\ tb_signals = <<>>
    /\ tb_rainfall = <<>> /\ tb_result = <<>>

IdleGrid ==
    /\ mt_objects = <<>> /\ mt_words = <<>> /\ mt_rows = <<>> /\ mt_cols = <<>>
    /\ mt_grid = <<>> /\ mt_w = 0 /\ mt_all_tables = <<>>

IdleMatcher ==
    /\ lm_rows = <<>> /\ lm_i = 0 /\ lm_grouped = <<>> /\ lm_location_dict = <<>>
    /\ lm_island_groups_dict = <<>> /\ lm_location_name = <<>> /\ lm_result = <<>>

IdleParts == tk_valid = {} /\ tk_text = <<>> /\ tk_parts = <<>> /\ tk_out = NoParse

NoTime == <<>>

IdleDatetime ==
    /\ dt_field = NoField /\ dt_clean_val = <<>> /\ dt_tried = <<>> /\ dt_dt = NoTime
    /\ dt_result = NoField

NoWarnings == <<>>

NoSite == [link |-> FALSE, download |-> FALSE, pdf |-> <<>>, segments |-> <<>>]

IdleAdvisory ==
    /\ ex_url = "" /\ ex_site = NoSite /\ ex_pdf_url = FALSE /\ ex_pdf_path = FALSE
    /\ ex_warnings = NoWarnings /\ ex_source_type = "" /\ ex_calls = <<>>
    /\ ex_result = <<>>

IdleIslands == wi_text = <<>> /\ wi_parts = <<>> /\ wi_result = <<>>

Unset == [unset |-> TRUE]

\* None, where the other values are records
NoData == [none |-> TRUE]

Pending == [done |-> FALSE, value |-> NoData]

IdleParallel ==
    /\ pp_analysis = NoData /\ pp_scrape = NoData
    /\ pp_pdf_future = Pending /\ pp_advisory_future = Pending
    /\ pp_finished = <<>> /\ pp_pdf_data = NoData /\ pp_advisory_data = NoData
    /\ pp_result = Unset

butHeader == <<scVars, feVars, plVars, rfVars, sgVars, tbVars, mtVars, lmVars, tkVars, dtVars, exVars, wiVars, ppVars>>

butStrip == <<hmVars, feVars, plVars, rfVars, sgVars, tbVars, mtVars, lmVars, tkVars, dtVars, exVars, wiVars, ppVars>>

butField == <<hmVars, scVars, plVars, rfVars, sgVars, tbVars, mtVars, lmVars, tkVars, dtVars, exVars, wiVars, ppVars>>

butLocations == <<hmVars, scVars, feVars, rfVars, sgVars, tbVars, mtVars, lmVars, tkVars, dtVars, exVars, wiVars, ppVars>>

butRainfall == <<hmVars, scVars, feVars, plVars, sgVars, tbVars, mtVars, lmVars, tkVars, dtVars, exVars, wiVars, ppVars>>

butSignals == <<hmVars, scVars, feVars, plVars, rfVars, tbVars, mtVars, lmVars, tkVars, dtVars, exVars, wiVars, ppVars>>

butBulletin == <<hmVars, scVars, feVars, plVars, rfVars, sgVars, mtVars, lmVars, tkVars, dtVars, exVars, wiVars, ppVars>>

butGrid == <<hmVars, scVars, feVars, plVars, rfVars, sgVars, tbVars, lmVars, tkVars, dtVars, exVars, wiVars, ppVars>>

butMatcher == <<hmVars, scVars, feVars, plVars, rfVars, sgVars, tbVars, mtVars, tkVars, dtVars, exVars, wiVars, ppVars>>

butParts == <<hmVars, scVars, feVars, plVars, rfVars, sgVars, tbVars, mtVars, lmVars, dtVars, exVars, wiVars, ppVars>>

butDatetime == <<hmVars, scVars, feVars, plVars, rfVars, sgVars, tbVars, mtVars, lmVars, tkVars, exVars, wiVars, ppVars>>

butAdvisory == <<hmVars, scVars, feVars, plVars, rfVars, sgVars, tbVars, mtVars, lmVars, tkVars, dtVars, wiVars, ppVars>>

butIslands == <<hmVars, scVars, feVars, plVars, rfVars, sgVars, tbVars, mtVars, lmVars, tkVars, dtVars, exVars, ppVars>>

butParallel == <<hmVars, scVars, feVars, plVars, rfVars, sgVars, tbVars, mtVars, lmVars, tkVars, dtVars, exVars, wiVars>>

IdleButHeader ==
    IdleStrip /\ IdleField /\ IdleLocations /\ IdleRainfall /\ IdleSignals
        /\ IdleBulletin /\ IdleGrid /\ IdleMatcher /\ IdleParts
        /\ IdleDatetime /\ IdleAdvisory /\ IdleIslands /\ IdleParallel

IdleButStrip ==
    IdleHeader /\ IdleField /\ IdleLocations /\ IdleRainfall /\ IdleSignals
        /\ IdleBulletin /\ IdleGrid /\ IdleMatcher /\ IdleParts
        /\ IdleDatetime /\ IdleAdvisory /\ IdleIslands /\ IdleParallel

IdleButField ==
    IdleHeader /\ IdleStrip /\ IdleLocations /\ IdleRainfall /\ IdleSignals
        /\ IdleBulletin /\ IdleGrid /\ IdleMatcher /\ IdleParts
        /\ IdleDatetime /\ IdleAdvisory /\ IdleIslands /\ IdleParallel

IdleButLocations ==
    IdleHeader /\ IdleStrip /\ IdleField /\ IdleRainfall /\ IdleSignals
        /\ IdleBulletin /\ IdleGrid /\ IdleMatcher /\ IdleParts
        /\ IdleDatetime /\ IdleAdvisory /\ IdleIslands /\ IdleParallel

IdleButRainfall ==
    IdleHeader /\ IdleStrip /\ IdleField /\ IdleLocations /\ IdleSignals
        /\ IdleBulletin /\ IdleGrid /\ IdleMatcher /\ IdleParts
        /\ IdleDatetime /\ IdleAdvisory /\ IdleIslands /\ IdleParallel

IdleButSignals ==
    IdleHeader /\ IdleStrip /\ IdleField /\ IdleLocations /\ IdleRainfall
        /\ IdleBulletin /\ IdleGrid /\ IdleMatcher /\ IdleParts
        /\ IdleDatetime /\ IdleAdvisory /\ IdleIslands /\ IdleParallel

IdleButBulletin ==
    IdleHeader /\ IdleStrip /\ IdleField /\ IdleLocations /\ IdleRainfall
        /\ IdleSignals /\ IdleGrid /\ IdleMatcher /\ IdleParts
        /\ IdleDatetime /\ IdleAdvisory /\ IdleIslands /\ IdleParallel

IdleButGrid ==
    IdleHeader /\ IdleStrip /\ IdleField /\ IdleLocations /\ IdleRainfall
        /\ IdleSignals /\ IdleBulletin /\ IdleMatcher /\ IdleParts
        /\ IdleDatetime /\ IdleAdvisory /\ IdleIslands /\ IdleParallel

IdleButMatcher ==
    IdleHeader /\ IdleStrip /\ IdleField /\ IdleLocations /\ IdleRainfall
        /\ IdleSignals /\ IdleBulletin /\ IdleGrid /\ IdleParts
        /\ IdleDatetime /\ IdleAdvisory /\ IdleIslands /\ IdleParallel

IdleButParts ==
    IdleHeader /\ IdleStrip /\ IdleField /\ IdleLocations /\ IdleRainfall
        /\ IdleSignals /\ IdleBulletin /\ IdleGrid /\ IdleMatcher
        /\ IdleDatetime /\ IdleAdvisory /\ IdleIslands /\ IdleParallel

IdleButDatetime ==
    IdleHeader /\ IdleStrip /\ IdleField /\ IdleLocations /\ IdleRainfall
        /\ IdleSignals /\ IdleBulletin /\ IdleGrid /\ IdleMatcher
        /\ IdleParts /\ IdleAdvisory /\ IdleIslands /\ IdleParallel

IdleButAdvisory ==
    IdleHeader /\ IdleStrip /\ IdleField /\ IdleLocations /\ IdleRainfall
        /\ IdleSignals /\ IdleBulletin /\ IdleGrid /\ IdleMatcher
        /\ IdleParts /\ IdleDatetime /\ IdleIslands /\ IdleParallel

IdleButIslands ==
    IdleHeader /\ IdleStrip /\ IdleField /\ IdleLocations /\ IdleRainfall
        /\ IdleSignals /\ IdleBulletin /\ IdleGrid /\ IdleMatcher
        /\ IdleParts /\ IdleDatetime /\ IdleAdvisory /\ IdleParallel

IdleButParallel ==
    IdleHeader /\ IdleStrip /\ IdleField /\ IdleLocations /\ IdleRainfall
        /\ IdleSignals /\ IdleBulletin /\ IdleGrid /\ IdleMatcher
        /\ IdleParts /\ IdleDatetime /\ IdleAdvisory /\ IdleIslands

----------------------------------------------------------------------------
(* HeaderMatcher.match called on one text and one alias list *)

MaxTextLen == 3

MaxAliasLen == 2

MaxAliases == 2

TextChars == {"a", "b", "A", " "}

AliasChars == {"a", "b"}

AliasLists ==
    UNION {[1..n -> TextsUpTo(AliasChars, MaxAliasLen) \ {<<>>}] : n \in 1..MaxAliases}

InitHeader ==
    /\ hm_text \in TextsUpTo(TextChars, MaxTextLen)
    /\ hm_aliases \in AliasLists
    /\ hm_out = NoConf
    /\ pc = "call"
    /\ IdleButHeader

InitHeaderOne ==
    /\ hm_text \in TextsUpTo(TextChars, MaxTextLen)
    /\ hm_aliases \in {<<a>> : a \in TextsUpTo(TextChars, MaxTextLen)}
    /\ hm_out = NoConf
    /\ pc = "call"
    /\ IdleButHeader

HeaderMatch ==
    /\ pc = "call"
    /\ hm_out' = match(hm_text, hm_aliases)
    /\ pc' = "done"
    /\ UNCHANGED <<hm_text, hm_aliases, butHeader>>

NextHeader == HeaderMatch

SpecHeader == InitHeader /\ [][NextHeader]_vars

SpecHeaderOne == InitHeaderOne /\ [][NextHeader]_vars

\* the best of the one-alias results from alias number k on
RECURSIVE BestSingle(_, _, _)
BestSingle(text, aliases, k) ==
    IF k > Len(aliases) THEN Zero
    ELSE RatMax(match(text, <<aliases[k]>>), BestSingle(text, aliases, k + 1))

\* C4: match(text, aliases) is the maximum over the aliases a of
\* match(text, [a]), and is 1.0 whenever an alias equals the normalized text.
C4_BestOverAliases ==
    pc = "done" =>
        /\ RatEq(hm_out, BestSingle(hm_text, hm_aliases, 1))
        /\ (\E k \in 1..Len(hm_aliases) : normalize(hm_aliases[k]) = normalize(hm_text))
              => RatEq(hm_out, One)

\* C5: with one alias, match returns 1.0 exactly when the normalized text
\* equals the normalized alias, and 0.0 whenever neither normalized text
\* contains the other and the similarity ratio is at most 0.6.
C5_SingleAlias ==
    (pc = "done" /\ Len(hm_aliases) = 1) =>
        LET nt == normalize(hm_text)
            na == normalize(hm_aliases[1])
        IN  /\ RatEq(hm_out, One) <=> nt = na
            /\ (/\ ~Contains(nt, na)
                /\ ~Contains(na, nt)
                /\ ~RatGT(ratio(nt, na), FuzzyFloor)) => RatEq(hm_out, Zero)

\* a call whose texts differ as given, are equal once normalized, and score 1.0
C5_Witness ==
    /\ pc = "done"
    /\ Len(hm_aliases) = 1
    /\ hm_text # hm_aliases[1]
    /\ normalize(hm_text) = normalize(hm_aliases[1])
    /\ Len(normalize(hm_text)) = 3
    /\ RatEq(hm_out, One)

----------------------------------------------------------------------------
(* TableParser._strip_confidence                                           *)
(*                                                                         *)
(* A JSON-like object is a node [kind, sval, items]: a scalar carries sval;*)
(* a dict carries its entries [key, node] in insertion order, the keys     *)
(* distinct; a list carries its elements as entries with key "".           *)

Scalar(v) == [kind |-> "scalar", sval |-> v, items |-> <<>>]

Dict(entries) == [kind |-> "dict", sval |-> "", items |-> entries]

List(nodes) ==
    [kind |-> "list", sval |-> "",
     items |-> [i \in 1..Len(nodes) |-> [key |-> "", node |-> nodes[i]]]]

Entry(k, n) == [key |-> k, node |-> n]

\* _strip_confidence that does not descend into lists
RECURSIVE strip_skipping_lists(_)
strip_skipping_lists(obj) ==
    IF obj.kind = "dict"
    THEN LET kept == SelectSeq(obj.items, LAMBDA e : e.key # "confidence")
         IN  [obj EXCEPT !.items =
                 [i \in 1..Len(kept) |->
                     Entry(kept[i].key, strip_skipping_lists(kept[i].node))]]
    ELSE obj

\* _strip_confidence that drops the key at the top level only
strip_top_level(obj) ==
    IF obj.kind = "dict"
    THEN [obj EXCEPT !.items = SelectSeq(obj.items, LAMBDA e : e.key # "confidence")]
    ELSE obj

RECURSIVE strip_confidence(_)
strip_confidence(obj) ==
    IF obj.kind = "dict"
    THEN LET kept == SelectSeq(obj.items, LAMBDA e : e.key # "confidence")
         IN  [obj EXCEPT !.items =
                 [i \in 1..Len(kept) |->
                     Entry(kept[i].key, strip_confidence(kept[i].node))]]
    ELSE IF obj.kind = "list"
    THEN [obj EXCEPT !.items =
             [i \in 1..Len(obj.items) |->
                 Entry("", strip_confidence(obj.items[i].node))]]
    ELSE obj

\* The objects of the model: every object of at most MaxNodes nodes (a
\* scalar, a dict and a list each count one) over these keys and scalars.
MaxNodes == 4

Keys == <<"confidence", "f", "value">>

Scalars == {Scalar("x"), Scalar("0.9")}

\* the strictly increasing index sequences of length n into Keys
RECURSIVE KeyChoices(_, _)
KeyChoices(n, from) ==
    IF n = 0 THEN {<<>>}
    ELSE UNION {{<<k>> \o rest : rest \in KeyChoices(n - 1, k + 1)} :
                   k \in from..Len(Keys)}

RECURSIVE NodesOfSize(_)
RECURSIVE ForestsOfSize(_)
\* the sequences of objects whose sizes sum to n
ForestsOfSize(n) ==
    IF n = 0 THEN {<<>>}
    ELSE UNION {{<<h>> \o t : h \in NodesOfSize(k), t \in ForestsOfSize(n - k)} :
                   k \in 1..n}

NodesOfSize(n) ==
    IF n = 1 THEN Scalars \cup {Dict(<<>>), List(<<>>)}
    ELSE LET forests == ForestsOfSize(n - 1)
         IN  {List(f) : f \in forests}
             \cup UNION {{Dict([i \in 1..Len(f) |-> Entry(Keys[ks[i]], f[i])]) :
                              ks \in KeyChoices(Len(f), 1)} :
                          f \in {g \in forests : Len(g) <= Len(Keys)}}

ObjectsUpTo(size) == UNION {NodesOfSize(n) : n \in 1..size}

InitStrip ==
    /\ sc_obj \in ObjectsUpTo(MaxNodes)
    /\ sc_out = NoObj
    /\ sc_again = NoObj
    /\ pc = "call"
    /\ IdleButStrip

\* parse_for_dataset's call
StripConfidence ==
    /\ pc = "call"
    /\ sc_out' = strip_confidence(sc_obj)
    /\ pc' = "done"
    /\ UNCHANGED <<sc_obj, sc_again, butStrip>>

\* the transform applied to its own result
StripAgain ==
    /\ pc = "done"
    /\ sc_again' = strip_confidence(sc_out)
    /\ pc' = "again"
    /\ UNCHANGED <<sc_obj, sc_out, butStrip>>

NextStrip == StripConfidence \/ StripAgain

SpecStrip == InitStrip /\ [][NextStrip]_vars

\* the step from an object to its i-th child: the key in a dict, the
\* position in a list
Step(node, i) ==
    IF node.kind = "dict" THEN [key |-> node.items[i].key, idx |-> 0]
    ELSE [key |-> "", idx |-> i]

\* every path from an object down to an object inside it
RECURSIVE Paths(_)
Paths(node) ==
    {<<>>} \cup UNION {{<<Step(node, i)>> \o q : q \in Paths(node.items[i].node)} :
                          i \in 1..Len(node.items)}

RECURSIVE At(_, _)
At(node, path) ==
    IF path = <<>> THEN node
    ELSE LET i == CHOOSE j \in 1..Len(node.items) : Step(node, j) = Head(path)
         IN  At(node.items[i].node, Tail(path))

KeysOf(node) == [i \in 1..Len(node.items) |-> node.items[i].key]

ThroughConfidence(path) == \E i \in 1..Len(path) : path[i].key = "confidence"

IsValueRecord(node) ==
    /\ node.kind = "dict"
    /\ {node.items[i].key : i \in 1..Len(node.items)} = {"value", "confidence"}

ValueOf(node) ==
    node.items[CHOOSE i \in 1..Len(node.items) : node.items[i].key = "value"].node

\* the transform that drops the confidence keys and puts the bare value in
\* the place of each {value, confidence} record
RECURSIVE bare_values(_)
bare_values(obj) ==
    IF IsValueRecord(obj) THEN bare_values(ValueOf(obj))
    ELSE IF obj.kind = "dict"
    THEN LET kept == SelectSeq(obj.items, LAMBDA e : e.key # "confidence")
         IN  [obj EXCEPT !.items =
                 [i \in 1..Len(kept) |-> Entry(kept[i].key, bare_values(kept[i].node))]]
    ELSE IF obj.kind = "list"
    THEN [obj EXCEPT !.items =
             [i \in 1..Len(obj.items) |-> Entry("", bare_values(obj.items[i].node))]]
    ELSE obj

\* {"f": {"value": "x", "confidence": 0.9}}
ExampleObj ==
    Dict(<<Entry("f", Dict(<<Entry("confidence", Scalar("0.9")),
                             Entry("value", Scalar("x"))>>))>>)

\* C6 as stated: every {value, confidence} record, at any depth, is
\* replaced by its bare value, so that the example becomes {"f": "x"}.
C6_BareValue ==
    pc = "done" =>
        /\ sc_out = bare_values(sc_obj)
        /\ sc_obj = ExampleObj => sc_out = Dict(<<Entry("f", Scalar("x"))>>)

\* C6 amended: every {value, confidence} record outside the value of a
\* confidence key stays a record in its place and keeps exactly its value
\* key, holding a value of the same kind; the example becomes
\* {"f": {"value": "x"}}.
C6_KeepsValueKey ==
    pc = "done" =>
        /\ \A p \in Paths(sc_obj) :
              (IsValueRecord(At(sc_obj, p)) /\ ~ThroughConfidence(p)) =>
                  /\ p \in Paths(sc_out)
                  /\ At(sc_out, p).kind = "dict"
                  /\ KeysOf(At(sc_out, p)) = <<"value">>
                  /\ ValueOf(At(sc_out, p)).kind = ValueOf(At(sc_obj, p)).kind
                  /\ ValueOf(At(sc_out, p)).sval = ValueOf(At(sc_obj, p)).sval
        /\ sc_obj = ExampleObj =>
              sc_out = Dict(<<Entry("f", Dict(<<Entry("value", Scalar("x"))>>))>>)

\* the transform has run on the example
C6_Witness == pc = "done" /\ sc_obj = ExampleObj

\* C7: the result has no confidence key at any depth; it has exactly the
\* places of the argument that are not under a confidence key, each with the
\* kind, the scalar, the key order and the list positions it had; and the
\* transform applied to its result changes nothing.
C7_OnlyConfidenceRemoved ==
    /\ pc \in {"done", "again"} =>
          /\ Paths(sc_out) = {p \in Paths(sc_obj) : ~ThroughConfidence(p)}
          /\ \A p \in Paths(sc_out) :
                /\ At(sc_out, p).kind = At(sc_obj, p).kind
                /\ At(sc_out, p).sval = At(sc_obj, p).sval
                /\ KeysOf(At(sc_out, p)) =
                      SelectSeq(KeysOf(At(sc_obj, p)), LAMBDA k : k # "confidence")
    /\ pc = "again" => sc_again = sc_out

\* the transform has run twice on a list holding a dict with a confidence
\* key and another key
C7_Witness ==
    /\ pc = "again"
    /\ sc_obj.kind = "list"
    /\ \E p \in Paths(sc_obj) :
          /\ Len(p) = 1
          /\ KeysOf(At(sc_obj, p)) = <<"confidence", "f">>
    /\ sc_out # sc_obj

----------------------------------------------------------------------------
(* TableParser._extract_simple_field and DataExtractor._find_value         *)
(*                                                                         *)
(* A grid is a sequence of rows, a row a sequence of cell texts; rows may  *)
(* differ in length.  The empty text stands for an empty cell (None or "").*)
(* Rows and columns are numbered from 1.                                   *)

\* str.split(":", 1)[1]: the text after the first colon of a text that has one
AfterColon(text) ==
    LET k == CHOOSE i \in 1..Len(text) :
                 text[i] = ":" /\ \A h \in 1..(i - 1) : text[h] # ":"
    IN  SubSeq(text, k + 1, Len(text))

HasColon(text) == \E i \in 1..Len(text) : text[i] = ":"

\* _flatten_tables' cleaned cell
clean_cell(cell) == IF cell # <<>> THEN normalize(cell) ELSE <<>>

HeaderFloor == <<7, 10>>

\* the value part of _extract_simple_field with the inline remainder tried
\* before the neighbouring cells
cell_value_inline_first(rows, i, j) ==
    LET row == rows[i]
        rest == IF HasColon(row[j]) THEN Strip(AfterColon(row[j])) ELSE <<>>
    IN  IF rest # <<>> THEN rest
        ELSE IF j + 1 <= Len(row) /\ row[j + 1] # <<>> THEN Strip(row[j + 1])
        ELSE IF i + 1 <= Len(rows)
             THEN IF j <= Len(rows[i + 1]) /\ rows[i + 1][j] # <<>>
                  THEN Strip(rows[i + 1][j])
                  ELSE IF rows[i + 1] # <<>> /\ rows[i + 1][1] # <<>>
                       THEN Strip(rows[i + 1][1])
                       ELSE NULL
        ELSE NULL

\* the "Attempt Extraction" part of _extract_simple_field for the header
\* cell rows[i][j]: the text found, or NULL or the empty text for none
cell_value(rows, i, j) ==
    LET row == rows[i]
        near ==
            IF j + 1 <= Len(row) /\ row[j + 1] # <<>> THEN Strip(row[j + 1])
            ELSE IF i + 1 <= Len(rows)
                 THEN IF j <= Len(rows[i + 1]) /\ rows[i + 1][j] # <<>>
                      THEN Strip(rows[i + 1][j])
                      ELSE IF rows[i + 1] # <<>> /\ rows[i + 1][1] # <<>>
                           THEN Strip(rows[i + 1][1])
                           ELSE NULL
            ELSE NULL
    IN  IF (near = NULL \/ near = <<>>) /\ HasColon(row[j])
             /\ Strip(AfterColon(row[j])) # <<>>
        THEN Strip(AfterColon(row[j]))
        ELSE near

\* the update of best_result that keeps the later of two equal confidences
keep_best_last_wins(best, value, confidence) ==
    IF value # NULL /\ value # <<>> /\ RatGE(confidence, best.confidence)
    THEN [value |-> Strip(CollapseWs(value)), confidence |-> confidence]
    ELSE best

\* the update of best_result that does not test the value
keep_best_no_value_test(best, value, confidence) ==
    IF RatGT(confidence, best.confidence)
    THEN [value |-> IF value = NULL \/ value = <<>> THEN NULL
                    ELSE Strip(CollapseWs(value)),
          confidence |-> confidence]
    ELSE best

\* "if value: ... if confidence > best_result['confidence']"
keep_best(best, value, confidence) ==
    IF value # NULL /\ value # <<>> /\ RatGT(confidence, best.confidence)
    THEN [value |-> Strip(CollapseWs(value)), confidence |-> confidence]
    ELSE best

\* the two loops of _extract_simple_field from the cell rows[i][j] on
RECURSIVE scan_cells(_, _, _, _, _)
scan_cells(rows, aliases, i, j, best) ==
    IF i > Len(rows) THEN best
    ELSE IF j > Len(rows[i]) THEN scan_cells(rows, aliases, i + 1, 1, best)
    ELSE LET cell == clean_cell(rows[i][j])
             confidence == match(cell, aliases)
         IN  IF cell # <<>> /\ RatGT(confidence, HeaderFloor)
             THEN scan_cells(rows, aliases, i, j + 1,
                             keep_best(best, cell_value(rows, i, j), confidence))
             ELSE scan_cells(rows, aliases, i, j + 1, best)

extract_simple_field(rows, aliases) ==
    scan_cells(rows, aliases, 1, 1, [value |-> NULL, confidence |-> Zero])

\* DataExtractor._find_value(grid, r, c)
find_value(grid, r, c) ==
    LET row == grid[r]
        rest == IF HasColon(row[c]) THEN Strip(AfterColon(row[c])) ELSE <<>>
        right == IF c + 1 <= Len(row) THEN Strip(row[c + 1]) ELSE <<>>
        below == IF r + 1 <= Len(grid) /\ c <= Len(grid[r + 1])
                 THEN Strip(grid[r + 1][c]) ELSE <<>>
        first == IF r + 1 <= Len(grid) /\ Len(grid[r + 1]) > 0
                 THEN Strip(grid[r + 1][1]) ELSE <<>>
    IN  IF rest # <<>> THEN rest
        ELSE IF right # <<>> THEN right
        ELSE IF below # <<>> THEN below
        ELSE IF first # <<>> THEN first
        ELSE NULL

\* The grids of the model: at most MaxRows rows and MaxCells cells in all,
\* each cell one of CellTexts; the field's aliases are FieldAliases.
MaxRows == 2

MaxCells == 3

FieldAliases == <<<<"h", "d">>>>

CellTexts ==
    { <<>>,
      <<" ">>,
      <<"H", "d">>,
      <<"h", "d", ":", "x">>,
      <<"h", "d", ":">>,
      <<"h", "x", "d">>,
      <<" ", "y">> }

RowsOfLen(n) == [1..n -> CellTexts]

\* the grids of at most m rows and exactly n cells
RECURSIVE GridsOf(_, _)
GridsOf(m, n) ==
    IF m = 0 THEN IF n = 0 THEN {<<>>} ELSE {}
    ELSE (IF n = 0 THEN {<<>>} ELSE {})
         \cup UNION {{<<row>> \o g : row \in RowsOfLen(k), g \in GridsOf(m - 1, n - k)} :
                        k \in 0..n}

GridsUpTo(rows, cells) == UNION {GridsOf(rows, n) : n \in 0..cells}

InitField ==
    /\ fe_rows \in GridsUpTo(MaxRows, MaxCells)
    /\ fe_out = NoField
    /\ fv_pos = <<0, 0>>
    /\ fv_out = NULL
    /\ pc = "call"
    /\ IdleButField

\* TableParser._extract_simple_field(config_key)
ExtractSimpleField ==
    /\ pc = "call"
    /\ fe_out' = extract_simple_field(fe_rows, FieldAliases)
    /\ pc' = "done"
    /\ UNCHANGED <<fe_rows, fv_pos, fv_out, butField>>

\* DataExtractor._find_value(grid, r, c) on a cell of the grid
FindValue ==
    /\ pc = "call"
    /\ \E r \in 1..Len(fe_rows) :
          \E c \in 1..Len(fe_rows[r]) :
              /\ fv_pos' = <<r, c>>
              /\ fv_out' = find_value(fe_rows, r, c)
    /\ pc' = "found"
    /\ UNCHANGED <<fe_rows, fe_out, butField>>

NextField == ExtractSimpleField \/ FindValue

SpecField == InitField /\ [][NextField]_vars

\* the cell at row i, column j, empty when there is none
CellAt(rows, i, j) ==
    IF i \in 1..Len(rows) /\ j \in 1..Len(rows[i]) THEN rows[i][j] ELSE <<>>

\* the stripped text after the first colon, empty when there is none
Inline(cell) == IF HasColon(cell) THEN Strip(AfterColon(cell)) ELSE <<>>

\* the first text of a sequence that is not empty, NULL when all are
FirstNonEmpty(texts) ==
    IF \A k \in 1..Len(texts) : texts[k] = <<>> THEN NULL
    ELSE texts[CHOOSE k \in 1..Len(texts) :
                   texts[k] # <<>> /\ \A h \in 1..(k - 1) : texts[h] = <<>>]

Cleaned(value) == IF value = NULL THEN NULL ELSE Strip(CollapseWs(value))

\* the priority (a), (b), (c), (d): inline remainder, next cell, same column
\* of the next row, first cell of the next row
InlineFirstValue(rows, i, j) ==
    FirstNonEmpty(<<Inline(rows[i][j]),
                    Strip(CellAt(rows, i, j + 1)),
                    Strip(CellAt(rows, i + 1, j)),
                    Strip(CellAt(rows, i + 1, 1))>>)

\* the priority (b), (c), (d), then (a): the stripped text of the first
\* non-empty cell among next cell, same column of the next row and first
\* cell of the next row, and the inline remainder when that gives no text
NeighbourFirstValue(rows, i, j) ==
    LET cell == FirstNonEmpty(<<CellAt(rows, i, j + 1),
                                CellAt(rows, i + 1, j),
                                CellAt(rows, i + 1, 1)>>)
    IN  IF cell # NULL /\ Strip(cell) # <<>> THEN Strip(cell)
        ELSE FirstNonEmpty(<<Inline(rows[i][j])>>)

Confidence(rows, h) == match(clean_cell(rows[h[1]][h[2]]), FieldAliases)

\* the cells that score above 0.7 against the field's aliases
Headers(rows) ==
    {h \in {<<i, j>> : i \in 1..Len(rows), j \in 1..MaxCells} :
        /\ h[2] <= Len(rows[h[1]])
        /\ RatGT(Confidence(rows, h), HeaderFloor)}

\* C8 as stated: both extractors take (a) the inline remainder first, then
\* (b), (c), (d).
C8_InlineFirst ==
    /\ pc = "found" =>
          fv_out = InlineFirstValue(fe_rows, fv_pos[1], fv_pos[2])
    /\ pc = "done" =>
          \A h \in Headers(fe_rows) :
              Headers(fe_rows) = {h} =>
                  fe_out.value = Cleaned(InlineFirstValue(fe_rows, h[1], h[2]))

\* C8 amended: _find_value takes (a), (b), (c), (d) in this order;
\* _extract_simple_field takes the first non-empty cell among (b), (c), (d)
\* and uses (a) only when that gives no text, so that the result is the
\* value so taken from one of the header cells, and from the only one when
\* the grid has one.
C8_PriorityPerExtractor ==
    /\ pc = "found" =>
          fv_out = InlineFirstValue(fe_rows, fv_pos[1], fv_pos[2])
    /\ pc = "done" =>
          /\ \A h \in Headers(fe_rows) :
                Headers(fe_rows) = {h} =>
                    fe_out.value = Cleaned(NeighbourFirstValue(fe_rows, h[1], h[2]))
          /\ fe_out.value \in
                {NULL} \cup {Cleaned(NeighbourFirstValue(fe_rows, h[1], h[2])) :
                                h \in Headers(fe_rows)}

\* a header cell with an inline value followed by a non-empty cell: the
\* table parser has returned the following cell's text
C8_Witness ==
    /\ pc = "done"
    /\ fe_rows = <<<< <<"h", "d", ":", "x">>, <<" ", "y">> >>>>
    /\ fe_out.value = <<"y">>

RowMajorBefore(g, h) == g[1] < h[1] \/ (g[1] = h[1] /\ g[2] < h[2])

\* the header cells from which a value could be extracted
Candidates(rows) ==
    {h \in Headers(rows) : cell_value(rows, h[1], h[2]) \notin {NULL, <<>>}}

\* C9: the result is the value and the confidence of the candidate header
\* cell with the highest confidence, the first in row-major order among
\* equals; header cells without a value play no part.
C9_HighestConfidenceFirstWins ==
    pc = "done" =>
        IF Candidates(fe_rows) = {}
        THEN fe_out.value = NULL
        ELSE LET best == CHOOSE h \in Candidates(fe_rows) :
                             \A o \in Candidates(fe_rows) \ {h} :
                                 \/ RatGT(Confidence(fe_rows, h), Confidence(fe_rows, o))
                                 \/ /\ RatEq(Confidence(fe_rows, h), Confidence(fe_rows, o))
                                    /\ RowMajorBefore(h, o)
             IN  /\ fe_out.value = Cleaned(cell_value(fe_rows, best[1], best[2]))
                 /\ RatEq(fe_out.confidence, Confidence(fe_rows, best))

\* two candidates of equal confidence and different values, the second
\* followed by a header cell of the highest confidence that has no value
C9_Witness ==
    /\ pc = "done"
    /\ fe_rows = <<<< <<"h", "d", ":", "x">>, <<"h", "d", ":", "x">>, <<"H", "d">> >>>>
    /\ fe_out.value = <<"h", "d", ":", "x">>

\* C10: without a cell above 0.7 the result is {value: null, confidence:
\* 0.0}; in every result the value is null exactly when the confidence is
\* 0.0, and a value that is not null has a confidence above 0.7.
C10_NullIffZero ==
    pc = "done" =>
        /\ Headers(fe_rows) = {} => fe_out = [value |-> NULL, confidence |-> Zero]
        /\ fe_out.value = NULL <=> RatEq(fe_out.confidence, Zero)
        /\ fe_out.value # NULL =>
              /\ fe_out.value # <<>>
              /\ RatGT(fe_out.confidence, HeaderFloor)

\* a grid with text in it and no cell above 0.7
C10_Witness ==
    /\ pc = "done"
    /\ \E i \in 1..Len(fe_rows) : \E j \in 1..Len(fe_rows[i]) :
          Strip(fe_rows[i][j]) # <<>>
    /\ Headers(fe_rows) = {}
    /\ fe_out = [value |-> NULL, confidence |-> Zero]

----------------------------------------------------------------------------
(* RainfallAdvisoryExtractor.parse_locations_text (advisory_scraper.py)    *)

\* str.split(): the maximal runs of non-whitespace characters
RECURSIVE split_words(_)
split_words(s) ==
    LET t == LStrip(s)
        ends == {i \in 1..Len(t) : IsSpace(t[i])}
        n == IF ends = {} THEN Len(t) + 1
             ELSE CHOOSE i \in ends : \A k \in ends : i <= k
    IN  IF t = <<>> THEN <<>>
        ELSE <<SubSeq(t, 1, n - 1)>> \o split_words(SubSeq(t, n, Len(t)))

\* str.split(sep) for a one-character separator
RECURSIVE split_on(_, _)
split_on(s, sep) ==
    LET hits == {i \in 1..Len(s) : s[i] = sep}
        n == CHOOSE i \in hits : \A k \in hits : i <= k
    IN  IF hits = {} THEN <<s>>
        ELSE <<SubSeq(s, 1, n - 1)>> \o split_on(SubSeq(s, n + 1, Len(s)), sep)

\* sep.join(texts)
RECURSIVE join(_, _)
join(texts, sep) ==
    IF texts = <<>> THEN <<>>
    ELSE IF Len(texts) = 1 THEN texts[1]
    ELSE texts[1] \o sep \o join(Tail(texts), sep)

directional_prefixes ==
    {<<"N", "o", "r", "t", "h", "e", "r", "n">>,
     <<"S", "o", "u", "t", "h", "e", "r", "n">>,
     <<"E", "a", "s", "t", "e", "r", "n">>,
     <<"W", "e", "s", "t", "e", "r", "n">>,
     <<"C", "e", "n", "t", "r", "a", "l">>,
     <<"N", "o", "r", "t", "h">>,
     <<"S", "o", "u", "t", "h">>,
     <<"E", "a", "s", "t">>,
     <<"W", "e", "s", "t">>,
     <<"G", "r", "e", "a", "t", "e", "r">>}

directional_suffixes ==
    {<<"O", "c", "c", "i", "d", "e", "n", "t", "a", "l">>,
     <<"O", "r", "i", "e", "n", "t", "a", "l">>}

AND_PREFIX == <<"a", "n", "d", " ">>

And == <<"a", "n", "d">>

Dash == <<"-">>

Space == <<" ">>

is_valid_location(location, valid_locations) ==
    \/ valid_locations = {}
    \/ location \in valid_locations
    \/ \E k \in 1..Len(split_words(location)) :
          split_words(location)[k] \in valid_locations

\* text.replace('\n', ' ').replace('\r', ' ')
replace_newlines(text) ==
    [i \in 1..Len(text) |-> IF text[i] \in {"\n", "\r"} THEN " " ELSE text[i]]

\* re.split(r'  +', text)[0]: the text before the first run of two spaces
first_section(text) ==
    LET gaps == {i \in 1..(Len(text) - 1) : text[i] = " " /\ text[i + 1] = " "}
    IN  IF gaps = {} THEN text
        ELSE SubSeq(text, 1, (CHOOSE i \in gaps : \A k \in gaps : i <= k) - 1)

(* The state of one call: the list built so far, and whether a validation  *)
(* has failed ("Invalid location - stop"), in this call or in a call it    *)
(* made, with the length the list had at the first such failure.           *)
add(st, location) == [st EXCEPT !.locations = Append(@, location)]

stop(st) ==
    IF st.stopped THEN st
    ELSE [st EXCEPT !.stopped = TRUE, !.kept = Len(st.locations)]

\* locations.extend(remaining_locs)
extend(st, r) ==
    [locations |-> st.locations \o r.locations,
     stopped |-> st.stopped \/ r.stopped,
     kept |-> IF st.stopped THEN st.kept
              ELSE IF r.stopped THEN Len(st.locations) + r.kept
              ELSE 0]

RECURSIVE parse_locations_text(_, _)
RECURSIVE parse_parts(_, _, _, _)
RECURSIVE parse_and_part(_, _, _, _, _)
RECURSIVE parse_words(_, _, _, _, _)
RECURSIVE parse_plain_part(_, _, _, _, _)

\* lines 161-202: the part starts with "and "; words are the words after it
parse_and_part(parts, i, st, valid, words) ==
    LET combined == words[1] \o Space \o words[2]
        with_two == add(st, combined)
        with_one == add(st, words[1])
    IN  IF Len(words) >= 2
        THEN IF /\ words[1] \in directional_prefixes
                /\ (valid = {} \/ is_valid_location(combined, valid))
             THEN parse_parts(parts, i + 1,
                      IF Len(words) > 2
                      THEN extend(with_two, parse_locations_text(
                               join(SubSeq(words, 3, Len(words)), Space), valid))
                      ELSE with_two,
                      valid)
             ELSE IF valid = {} \/ is_valid_location(words[1], valid)
             THEN parse_parts(parts, i + 1,
                      extend(with_one, parse_locations_text(
                          join(Tail(words), Space), valid)),
                      valid)
             ELSE stop(st)
        ELSE IF valid = {} \/ is_valid_location(words[1], valid)
             THEN parse_parts(parts, i + 1, with_one, valid)
             ELSE stop(st)

\* lines 221-259: the words of a part of more than two words, from word j
parse_words(words, j, st, added, valid) ==
    IF j > Len(words) THEN [st |-> st, added |-> added, returned |-> FALSE]
    ELSE
    LET pair == words[j] \o Space \o words[j + 1]
    IN  IF /\ j + 1 <= Len(words)
           /\ words[j] \in directional_prefixes
           /\ (valid = {} \/ is_valid_location(pair, valid))
        THEN parse_words(words, j + 2, add(st, pair), TRUE, valid)
        ELSE IF /\ j + 1 <= Len(words)
                /\ words[j + 1] \in directional_suffixes
                /\ (valid = {} \/ is_valid_location(pair, valid))
        THEN parse_words(words, j + 2, add(st, pair), TRUE, valid)
        ELSE IF valid = {} \/ is_valid_location(words[j], valid)
        THEN parse_words(words, j + 1, add(st, words[j]), TRUE, valid)
        ELSE [st |-> IF j < Len(words)
                     THEN extend(stop(st), parse_locations_text(
                              join(SubSeq(words, j + 1, Len(words)), Space), valid))
                     ELSE stop(st),
              added |-> added, returned |-> TRUE]

\* lines 265-328: directional prefix, directional suffix, regular location
parse_plain_part(parts, i, st, valid, part) ==
    LET following == Strip(parts[i + 1])
        skip == ToLower(following) = And /\ i + 2 <= Len(parts)
        next_part == IF skip THEN Strip(parts[i + 2]) ELSE following
        i1 == IF skip THEN i + 1 ELSE i
        combined == part \o Space \o next_part
    IN  IF part \in directional_prefixes /\ i + 1 <= Len(parts)
        THEN IF next_part # <<>> /\ next_part # Dash /\ ToLower(next_part) # And
             THEN IF valid = {} \/ is_valid_location(combined, valid)
                  THEN parse_parts(parts, i1 + 2, add(st, combined), valid)
                  ELSE stop(st)
             ELSE IF valid = {} \/ is_valid_location(part, valid)
                  THEN parse_parts(parts, i1 + 1, add(st, part), valid)
                  ELSE stop(st)
        ELSE IF i + 1 <= Len(parts) /\ following \in directional_suffixes
        THEN IF valid = {} \/ is_valid_location(part \o Space \o following, valid)
             THEN parse_parts(parts, i + 2, add(st, part \o Space \o following), valid)
             ELSE stop(st)
        ELSE IF valid = {} \/ is_valid_location(part, valid)
        THEN parse_parts(parts, i + 1, add(st, part), valid)
        ELSE stop(st)

\* lines 152-328: the loop over the comma-separated parts, from part i
parse_parts(parts, i, st, valid) ==
    IF i > Len(parts) THEN st
    ELSE
    LET part == Strip(parts[i])
        and_words == split_words(Strip(SubSeq(part, Len(AND_PREFIX) + 1, Len(part))))
        all_words == split_words(part)
        words == IF all_words # <<>> /\ ToLower(all_words[1]) = And
                 THEN Tail(all_words) ELSE all_words
        r == parse_words(words, 1, st, FALSE, valid)
    IN  IF part = <<>> \/ part = Dash \/ ToLower(part) = And
        THEN parse_parts(parts, i + 1, st, valid)
        ELSE IF StartsWith(ToLower(part), AND_PREFIX) /\ Len(and_words) >= 1
        THEN parse_and_part(parts, i, st, valid, and_words)
        ELSE IF Len(words) > 2
        THEN IF valid # {} /\ is_valid_location(join(words, Space), valid)
             THEN parse_parts(parts, i + 1, add(st, join(words, Space)), valid)
             ELSE IF r.returned THEN r.st
             ELSE IF r.added THEN parse_parts(parts, i + 1, r.st, valid)
             ELSE parse_plain_part(parts, i, r.st, valid, part)
        ELSE parse_plain_part(parts, i, st, valid, part)

\* lines 134-144: newlines replaced, the first section, single spaces
normalized(text) == join(split_words(first_section(replace_newlines(text))), Space)

\* line 147 with a comma inside "( ... )" not splitting
parts_outside_parentheses(text) ==
    LET depth(k) == Cardinality({h \in 1..(k - 1) : text[h] = "("})
                        - Cardinality({h \in 1..(k - 1) : text[h] = ")"})
        commas == {k \in 1..Len(text) : text[k] = "," /\ depth(k) = 0}
        after(k) == CHOOSE h \in (k + 1)..(Len(text) + 1) :
                       /\ h \in commas \/ h = Len(text) + 1
                       /\ \A g \in (k + 1)..(h - 1) : g \notin commas
        starts == [n \in 1..(Cardinality(commas) + 1) |->
                      CHOOSE k \in commas \cup {0} :
                          Cardinality({g \in commas : g <= k}) = n - 1]
    IN  [n \in 1..(Cardinality(commas) + 1) |->
            Strip(SubSeq(text, starts[n] + 1, after(starts[n]) - 1))]

\* line 147: parts = [p.strip() for p in text.split(',')]
parts_of(text) ==
    LET split == split_on(text, ",")
    IN  [k \in 1..Len(split) |-> Strip(split[k])]

\* lines 124-125: the call returns [] at once
no_locations(text) == text = <<>> \/ Strip(text) = Dash \/ Strip(text) = <<>>

parse_locations_text(text, valid) ==
    IF no_locations(text) THEN NoParse
    ELSE parse_parts(parts_of(normalized(text)), 1, NoParse, valid)

(* parse_locations_text called on one text *)

MaxTextWords == 4

Abra == <<"A", "b", "r", "a">>

Cebu == <<"C", "e", "b", "u">>

Negros == <<"N", "e", "g", "r", "o", "s">>

Northern == <<"N", "o", "r", "t", "h", "e", "r", "n">>

Oriental == <<"O", "r", "i", "e", "n", "t", "a", "l">>

\* consolidated_locations.csv: Negros is known only as Negros Oriental
Gazetteer == {Abra, Cebu, Negros \o Space \o Oriental}

LocationWords == {Abra, Cebu, Negros, And, Northern, Oriental}

Separators == {Space, <<",", " ">>, <<" ", " ">>}

RECURSIVE interleave(_, _)
interleave(words, seps) ==
    IF Len(words) = 1 THEN words[1]
    ELSE words[1] \o seps[1] \o interleave(Tail(words), Tail(seps))

LocationTextsUpTo(words) ==
    UNION {{interleave(ws, ss) : ws \in [1..n -> LocationWords],
                                 ss \in [1..(n - 1) -> Separators]}
           : n \in 1..words}

InitLocations ==
    /\ pl_valid \in {Gazetteer, {}}
    /\ pl_text \in LocationTextsUpTo(MaxTextWords)
    /\ pl_out = NoParse
    /\ pc = "call"
    /\ IdleButLocations

ParseLocationsText ==
    /\ pc = "call"
    /\ pl_out' = parse_locations_text(pl_text, pl_valid)
    /\ pc' = "done"
    /\ UNCHANGED <<pl_valid, pl_text, butLocations>>

NextLocations == ParseLocationsText

SpecLocations == InitLocations /\ [][NextLocations]_vars

\* C2: with a non-empty gazetteer, once a token has failed validation the
\* call returns only what it had collected before: nothing taken from the
\* text after the failing token is in the returned list.
C2_StrictStop ==
    (pc = "done" /\ pl_valid # {} /\ pl_out.stopped)
        => Len(pl_out.locations) = pl_out.kept

----------------------------------------------------------------------------
(* LocationMatcher.find_island_group (typhoon_extraction_ml.py)            *)

NoIsland == "<None>"

REGION_MAPPING ==
    <<[name |-> <<"I", "l", "o", "c", "o", "s", " ", "R", "e", "g", "i", "o", "n">>, island |-> "Luzon"],
      [name |-> <<"C", "a", "g", "a", "y", "a", "n", " ", "V", "a", "l", "l", "e", "y">>, island |-> "Luzon"],
      [name |-> <<"C", "e", "n", "t", "r", "a", "l", " ", "L", "u", "z", "o", "n">>, island |-> "Luzon"],
      [name |-> <<"C", "A", "L", "A", "B", "A", "R", "Z", "O", "N">>, island |-> "Luzon"],
      [name |-> <<"M", "I", "M", "A", "R", "O", "P", "A">>, island |-> "Luzon"],
      [name |-> <<"B", "i", "c", "o", "l", " ", "R", "e", "g", "i", "o", "n">>, island |-> "Luzon"],
      [name |-> <<"W", "e", "s", "t", "e", "r", "n", " ", "V", "i", "s", "a", "y", "a", "s">>, island |-> "Visayas"],
      [name |-> <<"C", "e", "n", "t", "r", "a", "l", " ", "V", "i", "s", "a", "y", "a", "s">>, island |-> "Visayas"],
      [name |-> <<"E", "a", "s", "t", "e", "r", "n", " ", "V", "i", "s", "a", "y", "a", "s">>, island |-> "Visayas"],
      [name |-> <<"Z", "a", "m", "b", "o", "a", "n", "g", "a", " ", "P", "e", "n", "i", "n", "s", "u", "l", "a">>, island |-> "Mindanao"],
      [name |-> <<"N", "o", "r", "t", "h", "e", "r", "n", " ", "M", "i", "n", "d", "a", "n", "a", "o">>, island |-> "Mindanao"],
      [name |-> <<"D", "a", "v", "a", "o", " ", "R", "e", "g", "i", "o", "n">>, island |-> "Mindanao"],
      [name |-> <<"S", "O", "C", "C", "S", "K", "S", "A", "R", "G", "E", "N">>, island |-> "Mindanao"],
      [name |-> <<"C", "a", "r", "a", "g", "a">>, island |-> "Mindanao"],
      [name |-> <<"B", "a", "n", "g", "s", "a", "m", "o", "r", "o">>, island |-> "Mindanao"],
      [name |-> <<"B", "A", "R", "M", "M">>, island |-> "Mindanao"],
      [name |-> <<"N", "a", "t", "i", "o", "n", "a", "l", " ", "C", "a", "p", "i", "t", "a", "l", " ", "R", "e", "g", "i", "o", "n">>, island |-> "Luzon"],
      [name |-> <<"N", "C", "R">>, island |-> "Luzon"],
      [name |-> <<"C", "o", "r", "d", "i", "l", "l", "e", "r", "a", " ", "A", "d", "m", "i", "n", "i", "s", "t", "r", "a", "t", "i", "v", "e", " ", "R", "e", "g", "i", "o", "n">>, island |-> "Luzon"],
      [name |-> <<"C", "A", "R">>, island |-> "Luzon"]>>

\* the region of name_lower's first match in an ordered table, NoIsland if none
first_related(table, name_lower) ==
    LET hits == {k \in 1..Len(table) :
                    \/ Contains(ToLower(table[k].name), name_lower)
                    \/ Contains(name_lower, ToLower(table[k].name))}
    IN  IF hits = {} THEN NoIsland
        ELSE table[CHOOSE k \in hits : \A h \in hits : k <= h].island

find_island_group(location_name, location_dict) ==
    LET name_lower == Strip(ToLower(location_name))
        exact == {k \in 1..Len(location_dict) : location_dict[k].name = name_lower}
    IN  IF location_name = <<>> \/ location_name = NULL THEN NoIsland
        ELSE IF exact # {} THEN location_dict[CHOOSE k \in exact : TRUE].island
        ELSE IF first_related(location_dict, name_lower) # NoIsland
        THEN first_related(location_dict, name_lower)
        ELSE first_related(REGION_MAPPING, name_lower)

----------------------------------------------------------------------------
(* RainfallWarningExtractor (typhoon_extraction_ml.py)                     *)

\* the number of whitespace characters of text from position p on
RECURSIVE ws_run(_, _)
ws_run(text, p) ==
    IF p >= 1 /\ p <= Len(text) /\ IsSpace(text[p]) THEN 1 + ws_run(text, p + 1) ELSE 0

\* re.IGNORECASE: the lower-case literal stands at position p of text
literal_at(text, p, literal) ==
    /\ p >= 1
    /\ p + Len(literal) - 1 <= Len(text)
    /\ ToLower(SubSeq(text, p, p + Len(literal) - 1)) = literal

\* w1\s+w2\s+...\s+wn at position p: the position after the match, 0 when
\* there is none
RECURSIVE phrase_end(_, _, _)
phrase_end(text, p, words) ==
    LET e == p + Len(words[1])
    IN  IF ~literal_at(text, p, words[1]) THEN 0
        ELSE IF Len(words) = 1 THEN e
        ELSE IF ws_run(text, e) = 0 THEN 0
        ELSE phrase_end(text, e + ws_run(text, e), Tail(words))

\* \s+(?:a|b|...) stands at position p
followed_by(text, p, phrases) ==
    /\ ws_run(text, p) > 0
    /\ \E ph \in phrases : phrase_end(text, p + ws_run(text, p), ph) # 0

(* An intensity pattern: its words, whether an optional "s" ends it, and   *)
(* the phrases of its negative lookahead.                                  *)
Pattern(words, plural, unless) ==
    [words |-> words, plural |-> plural, unless |-> unless]

RainsNotBefore == {<<<<"o", "v", "e", "r">>>>, <<<<"a", "r", "e">>>>, <<<<"a", "f", "f", "e", "c", "t", "i", "n", "g">>>>, <<<<"l", "i", "k", "e">>>>}

INTENSITY_PATTERNS ==
    <<  <<Pattern(<<<<"m", "o", "d", "e", "r", "a", "t", "e">>, <<"t", "o">>, <<"h", "e", "a", "v", "y">>, <<"w", "i", "t", "h">>, <<"a", "t">>, <<"t", "i", "m", "e", "s">>, <<"i", "n", "t", "e", "n", "s", "e">>>>, FALSE, {}),
          Pattern(<<<<"m", "o", "d", "e", "r", "a", "t", "e">>, <<"t", "o">>, <<"h", "e", "a", "v", "y">>, <<"w", "i", "t", "h">>, <<"a", "t">>, <<"t", "i", "m", "e", "s">>, <<"v", "e", "r", "y">>, <<"h", "e", "a", "v", "y">>>>, FALSE, {}),
          Pattern(<<<<"m", "o", "d", "e", "r", "a", "t", "e">>, <<"t", "o">>, <<"h", "e", "a", "v", "y">>, <<"w", "i", "t", "h">>, <<"i", "s", "o", "l", "a", "t", "e", "d">>, <<"t", "o">>, <<"s", "c", "a", "t", "t", "e", "r", "e", "d">>, <<"h", "e", "a", "v", "y">>>>, FALSE, {}),
          Pattern(<<<<"m", "o", "d", "e", "r", "a", "t", "e">>, <<"t", "o">>, <<"h", "e", "a", "v", "y">>, <<"r", "a", "i", "n">>>>, TRUE, RainsNotBefore)>>,
        <<Pattern(<<<<"l", "i", "g", "h", "t">>, <<"t", "o">>, <<"m", "o", "d", "e", "r", "a", "t", "e">>, <<"w", "i", "t", "h">>, <<"a", "t">>, <<"t", "i", "m", "e", "s">>, <<"h", "e", "a", "v", "y">>>>, FALSE, {}),
          Pattern(<<<<"l", "i", "g", "h", "t">>, <<"t", "o">>, <<"m", "o", "d", "e", "r", "a", "t", "e">>, <<"r", "a", "i", "n">>>>, TRUE, RainsNotBefore)>>,
        <<Pattern(<<<<"s", "l", "i", "g", "h", "t">>, <<"t", "o">>, <<"l", "i", "g", "h", "t">>, <<"r", "a", "i", "n">>>>, TRUE, {}),
          Pattern(<<<<"l", "i", "g", "h", "t">>, <<"r", "a", "i", "n">>>>, TRUE, {<<<<"t", "o">>, <<"m", "o", "d", "e", "r", "a", "t", "e">>>>})>>  >>

\* the pattern matched at position p: the position after the match, 0 when
\* there is none; the optional "s" is tried first
pattern_end(text, p, pat) ==
    LET e == phrase_end(text, p, pat.words)
    IN  IF e = 0 THEN 0
        ELSE IF /\ pat.plural
                /\ literal_at(text, e, <<"s">>)
                /\ ~followed_by(text, e + 1, pat.unless)
        THEN e + 1
        ELSE IF ~followed_by(text, e, pat.unless) THEN e
        ELSE 0

\* re.finditer(pattern, text): the matches from position from on, in order
RECURSIVE finditer(_, _, _)
finditer(text, from, pat) ==
    With({p \in from..Len(text) : pattern_end(text, p, pat) # 0},
         LAMBDA starts :
            IF starts = {} THEN <<>>
            ELSE With(CHOOSE p \in starts : \A q \in starts : p <= q,
                      LAMBDA first :
                         With(pattern_end(text, first, pat),
                              LAMBDA end : <<[start |-> first, end |-> end]>>
                                               \o finditer(text, end, pat))))

LocationKeywords == {<<"o", "v", "e", "r">>, <<"i", "n">>, <<"a", "f", "f", "e", "c", "t", "i", "n", "g">>}

\* re.search(r'\s+(?:over|in|affecting)\s+', text): the position after the
\* leftmost match, 0 when there is none
keyword_end(text) ==
    LET word_at(q) == q + ws_run(text, q)
        matches(q, k) == /\ ws_run(text, q) > 0
                         /\ literal_at(text, word_at(q), k)
                         /\ ws_run(text, word_at(q) + Len(k)) > 0
        starts == {q \in 1..Len(text) : \E k \in LocationKeywords : matches(q, k)}
        first == CHOOSE q \in starts : \A r \in starts : q <= r
        keyword == CHOOSE k \in LocationKeywords : matches(first, k)
        after == word_at(first) + Len(keyword)
    IN  IF starts = {} THEN 0 ELSE after + ws_run(text, after)

KeywordWindow == 300

NoPeriodLimit == 150

\* _split_locations_respecting_parentheses: the loop from character k on
RECURSIVE split_respecting(_, _, _, _, _)
split_respecting(text, k, current, paren_depth, locations) ==
    LET closed == IF Strip(current) # <<>> THEN Append(locations, Strip(current))
                  ELSE locations
    IN  IF k > Len(text) THEN closed
        ELSE IF text[k] = "("
        THEN split_respecting(text, k + 1, Append(current, "("), paren_depth + 1, locations)
        ELSE IF text[k] = ")"
        THEN split_respecting(text, k + 1, Append(current, ")"), paren_depth - 1, locations)
        ELSE IF text[k] = "," /\ paren_depth = 0
        THEN split_respecting(text, k + 1, <<>>, paren_depth, closed)
        ELSE split_respecting(text, k + 1, Append(current, text[k]), paren_depth, locations)

split_locations_respecting_parentheses(text) ==
    split_respecting(text, 1, <<>>, 0, <<>>)

LookupPrefixes ==
    <<<<"t", "h", "e">>,
      <<"a">>,
      <<"a", "n">>,
      <<"a", "n", "d">>,
      <<"o", "r">>,
      <<"r", "e", "s", "t", " ", "o", "f">>,
      <<"p", "o", "r", "t", "i", "o", "n", " ", "o", "f">>,
      <<"n", "o", "r", "t", "h", "e", "r", "n">>,
      <<"s", "o", "u", "t", "h", "e", "r", "n">>,
      <<"e", "a", "s", "t", "e", "r", "n">>,
      <<"w", "e", "s", "t", "e", "r", "n">>,
      <<"c", "e", "n", "t", "r", "a", "l">>,
      <<"n", "o", "r", "t", "h", "e", "r", "n", " ", "a", "n", "d", " ", "c", "e", "n", "t", "r", "a", "l">>,
      <<"e", "a", "s", "t", "e", "r", "n", " ", "a", "n", "d", " ", "w", "e", "s", "t", "e", "r", "n">>,
      <<"i", "s", "l", "a", "n", "d", " ", "o", "f">>,
      <<"i", "s", "l", "a", "n", "d", "s", " ", "o", "f">>,
      <<"p", "r", "o", "v", "i", "n", "c", "e", " ", "o", "f">>,
      <<"c", "i", "t", "y", " ", "o", "f">>,
      <<"m", "u", "n", "i", "c", "i", "p", "a", "l", "i", "t", "y", " ", "o", "f">>,
      <<"m", "u", "n", "i", "c", "i", "p", "a", "l", "i", "t", "i", "e", "s", " ", "o", "f">>,
      <<"b", "a", "r", "a", "n", "g", "a", "y", " ", "o", "f">>,
      <<"b", "a", "r", "a", "n", "g", "a", "y", "s", " ", "o", "f">>>>

\* re.sub(r'^(?:the|a|...)\s+', '', text, flags=re.IGNORECASE): the first
\* alternative that stands at the start with whitespace after it is removed
remove_lookup_prefix(text) ==
    LET fits == {k \in 1..Len(LookupPrefixes) :
                    /\ literal_at(text, 1, LookupPrefixes[k])
                    /\ ws_run(text, Len(LookupPrefixes[k]) + 1) > 0}
        prefix == LookupPrefixes[CHOOSE k \in fits : \A h \in fits : k <= h]
        from == Len(prefix) + 1 + ws_run(text, Len(prefix) + 1)
    IN  IF fits = {} THEN text ELSE SubSeq(text, from, Len(text))

\* re.split(r'\s*\(', text)[0]
before_parenthesis(text) ==
    LET opens == {k \in 1..Len(text) : text[k] = "("}
        first == CHOOSE k \in opens : \A h \in opens : k <= h
    IN  IF opens = {} THEN text ELSE RStrip(SubSeq(text, 1, first - 1))

\* re.sub(r'\s*\([^)]*\)', '', text)
RECURSIVE remove_parenthesised(_)
remove_parenthesised(text) ==
    LET groups == {k \in 1..Len(text) :
                      text[k] = "(" /\ \E h \in (k + 1)..Len(text) : text[h] = ")"}
        open == CHOOSE k \in groups : \A h \in groups : k <= h
        close == CHOOSE h \in (open + 1)..Len(text) :
                     text[h] = ")" /\ \A g \in (open + 1)..(h - 1) : text[g] # ")"
    IN  IF groups = {} THEN text
        ELSE RStrip(SubSeq(text, 1, open - 1))
                 \o remove_parenthesised(SubSeq(text, close + 1, Len(text)))

VaguePhrases == {<<"m", "o", "s", "t", " ", "o", "f">>, <<"n", "o", "r", "t", "h", "e", "a", "s", "t", "e", "r", "n">>, <<"n", "o", "r", "t", "h", "w", "e", "s", "t", "e", "r", "n">>, <<"s", "o", "u", "t", "h", "e", "a", "s", "t", "e", "r", "n">>,
                 <<"s", "o", "u", "t", "h", "w", "e", "s", "t", "e", "r", "n">>}

IslandNames == {<<"l", "u", "z", "o", "n">>, <<"v", "i", "s", "a", "y", "a", "s">>, <<"m", "i", "n", "d", "a", "n", "a", "o">>}

\* lines 760-805: the island group of one part of the location text
island_of(location_part, location_dict) ==
    LET main_location == Strip(before_parenthesis(location_part))
        loc_for_lookup == Strip(remove_lookup_prefix(main_location))
        loc_for_lookup_clean == Strip(remove_parenthesised(loc_for_lookup))
        cleaned == find_island_group(loc_for_lookup_clean, location_dict)
        plain == find_island_group(main_location, location_dict)
    IN  IF loc_for_lookup_clean = <<>> THEN NoIsland
        ELSE IF cleaned # NoIsland THEN cleaned
        ELSE IF plain # NoIsland THEN plain
        ELSE IF Contains(ToLower(main_location), <<"r", "e", "s", "t">>) THEN "Other"
        ELSE IF /\ \E v \in VaguePhrases : Contains(ToLower(main_location), v)
                /\ \E r \in IslandNames : Contains(ToLower(main_location), r)
        THEN "Other"
        ELSE NoIsland

NoIslands == [Luzon |-> NULL, Visayas |-> NULL, Mindanao |-> NULL, Other |-> NULL]

\* the parts that are kept, each with its island group
RECURSIVE validated_locations(_, _)
validated_locations(location_parts, location_dict) ==
    LET location_part == Strip(Head(location_parts))
        rest == validated_locations(Tail(location_parts), location_dict)
    IN  IF location_parts = <<>> THEN <<>>
        ELSE IF location_part = <<>> \/ location_part = Dash THEN rest
        ELSE IF island_of(location_part, location_dict) = NoIsland THEN rest
        ELSE <<[location |-> location_part,
                island |-> island_of(location_part, location_dict)]>> \o rest

\* ', '.join(loc for loc, isl in validated if isl == island), None when the
\* island has no location
RECURSIVE locations_of(_, _)
locations_of(validated, island) ==
    LET rest == locations_of(Tail(validated), island)
    IN  IF validated = <<>> THEN NULL
        ELSE IF Head(validated).island # island THEN rest
        ELSE IF rest = NULL THEN Head(validated).location
        ELSE Head(validated).location \o <<",", " ">> \o rest

parse_locations_with_islands(location_text, location_dict) ==
    LET text == Strip(CollapseWs(location_text))
        validated == validated_locations(
                         split_locations_respecting_parentheses(text), location_dict)
    IN  IF location_text = <<>> \/ Strip(location_text) = <<>> THEN NoIslands
        ELSE IF validated = <<>> THEN [NoIslands EXCEPT !.Luzon = text]
        ELSE [island \in DOMAIN NoIslands |-> locations_of(validated, island)]

\* lines 686-729: what the occurrence that ends before position search_start
\* gives; found is whether a location keyword follows within the window
occurrence(section, search_start, location_dict) ==
    LET remaining_text == SubSeq(section, search_start,
                                 Min(search_start + KeywordWindow - 1, Len(section)))
        location_start == search_start + keyword_end(remaining_text) - 1
        tail == SubSeq(section, location_start, Len(section))
        periods == {k \in 1..Len(tail) : tail[k] = "."}
        cut == IF periods # {}
               THEN SubSeq(tail, 1, (CHOOSE k \in periods : \A h \in periods : k <= h) - 1)
               ELSE SubSeq(tail, 1, Min(NoPeriodLimit, Len(tail)))
        location_text == Strip(split_on(Strip(cut), "\n")[1])
        by_island == parse_locations_with_islands(location_text, location_dict)
    IN  IF keyword_end(remaining_text) = 0 THEN [found |-> FALSE, islands |-> NoIslands]
        ELSE IF location_text = <<>> THEN [found |-> TRUE, islands |-> NoIslands]
        ELSE [found |-> TRUE,
              islands |-> [island \in DOMAIN NoIslands |->
                              IF by_island[island] # NULL /\ by_island[island] # <<>>
                              THEN by_island[island] ELSE NULL]]

\* the matches of one pattern, from match m on
RECURSIVE search_matches(_, _, _, _)
search_matches(section, found, m, location_dict) ==
    IF m > Len(found) THEN [found |-> FALSE, islands |-> NoIslands]
    ELSE With(occurrence(section, found[m].end, location_dict),
              LAMBDA here :
                 IF here.found THEN here
                 ELSE search_matches(section, found, m + 1, location_dict))

\* the patterns of one level, from pattern k on
RECURSIVE search_patterns(_, _, _, _)
search_patterns(section, patterns, k, location_dict) ==
    IF k > Len(patterns) THEN NoIslands
    ELSE With(finditer(section, 1, patterns[k]),
              LAMBDA found :
                 With(search_matches(section, found, 1, location_dict),
                      LAMBDA here :
                         IF here.found THEN here.islands
                         ELSE search_patterns(section, patterns, k + 1,
                                              location_dict)))

parse_rainfall_section(section, location_dict) ==
    IF section = <<>> \/ Strip(section) = <<>>
    THEN [level \in 1..3 |-> NoIslands]
    ELSE [level \in 1..3 |->
             search_patterns(section, INTENSITY_PATTERNS[level], 1, location_dict)]

(* _parse_rainfall_section called on one section *)

MaxStatements == 2

\* bin/consolidated_locations.csv as LocationMatcher.__init__ loads it
location_dict ==
    <<[name |-> <<"a", "b", "r", "a">>, island |-> "Luzon"],
      [name |-> <<"c", "e", "b", "u">>, island |-> "Visayas"]>>

Intensities ==
    {<<"M", "o", "d", "e", "r", "a", "t", "e", " ", "t", "o", " ", "h", "e", "a", "v", "y", " ", "r", "a", "i", "n", "s">>,
     <<"m", "o", "d", "e", "r", "a", "t", "e", " ", "t", "o", " ", "h", "e", "a", "v", "y", " ", "w", "i", "t", "h", " ", "a", "t", " ", "t", "i", "m", "e", "s", " ", "i", "n", "t", "e", "n", "s", "e", " ", "r", "a", "i", "n", "s">>,
     <<"l", "i", "g", "h", "t", " ", "t", "o", " ", "m", "o", "d", "e", "r", "a", "t", "e", " ", "r", "a", "i", "n", "s">>,
     <<"s", "l", "i", "g", "h", "t", " ", "t", "o", " ", "l", "i", "g", "h", "t", " ", "r", "a", "i", "n", "s">>}

Places == {<<"A", "b", "r", "a">>, <<"C", "e", "b", "u">>, <<>>}

Statements ==
    {i \o <<" ", "o", "v", "e", "r", " ">> \o place \o <<".", " ">> : i \in Intensities, place \in Places}
        \cup {i \o <<" ", "a", "r", "e", " ", "l", "i", "k", "e", "l", "y", ".", " ">> : i \in Intensities}

RECURSIVE concat(_)
concat(texts) == IF texts = <<>> THEN <<>> ELSE Head(texts) \o concat(Tail(texts))

SectionsUpTo(statements) ==
    UNION {{concat(st) : st \in [1..n -> Statements]} : n \in 0..statements}

InitRainfall ==
    /\ rf_section \in SectionsUpTo(MaxStatements)
    /\ rf_out = NoRainfall
    /\ pc = "call"
    /\ IdleButRainfall

ParseRainfallSection ==
    /\ pc = "call"
    /\ rf_out' = parse_rainfall_section(rf_section, location_dict)
    /\ pc' = "done"
    /\ UNCHANGED <<rf_section, butRainfall>>

NextRainfall == ParseRainfallSection

SpecRainfall == InitRainfall /\ [][NextRainfall]_vars

\* every match in the section of any of one level's patterns
level_matches(section, level) ==
    UNION {{finditer(section, 1, INTENSITY_PATTERNS[level][k])[m] :
               m \in 1..Len(finditer(section, 1, INTENSITY_PATTERNS[level][k]))} :
           k \in 1..Len(INTENSITY_PATTERNS[level])}

\* C3: for each level the recorded locations are those of the textually first
\* occurrence in the section of any of the level's intensity patterns,
\* whichever of the level's patterns it matches; no later occurrence
\* contributes.
C3_TextuallyFirst ==
    pc = "done" =>
        \A level \in 1..3 :
            LET found == level_matches(rf_section, level)
            IN  IF found = {} THEN rf_out[level] = NoIslands
                ELSE \E first \in found :
                        /\ \A other \in found : first.start <= other.start
                        /\ rf_out[level] =
                               occurrence(rf_section, first.end, location_dict).islands

----------------------------------------------------------------------------
(* TableParser._extract_signals (table_parser.py)                          *)

Digits == {"0", "1", "2", "3", "4", "5", "6", "7", "8", "9"}

\* the regex class \w
IsWordChar(c) ==
    \/ c \in Digits
    \/ c = "_"
    \/ \E k \in 1..Len(UPPER) : c = UPPER[k] \/ c = LOWER[k]

\* int(re.search(r'\b([1-5])\b', text).group(1)), 0 when there is no match
signal_number(text) ==
    LET hits == {k \in 1..Len(text) :
                    /\ text[k] \in {"1", "2", "3", "4", "5"}
                    /\ (k = 1 \/ ~IsWordChar(text[k - 1]))
                    /\ (k = Len(text) \/ ~IsWordChar(text[k + 1]))}
        first == CHOOSE k \in hits : \A h \in hits : k <= h
    IN  IF hits = {} THEN 0
        ELSE CHOOSE n \in 1..5 : <<text[first]>> = <<"1", "2", "3", "4", "5">>[n]

\* re.sub(r'[\n\r]+', '; ', text)
RECURSIVE join_lines(_)
join_lines(text) ==
    LET breaks == {k \in 1..Len(text) : text[k] \in {"\n", "\r"}}
        first == CHOOSE k \in breaks : \A h \in breaks : k <= h
        after == CHOOSE k \in (first + 1)..(Len(text) + 1) :
                     /\ k = Len(text) + 1 \/ text[k] \notin {"\n", "\r"}
                     /\ \A h \in (first + 1)..(k - 1) : text[h] \in {"\n", "\r"}
    IN  IF breaks = {} THEN text
        ELSE SubSeq(text, 1, first - 1) \o <<";", " ">>
                 \o join_lines(SubSeq(text, after, Len(text)))

tcws == <<<<"T", "R", "O", "P", "I", "C", "A", "L", " ", "C", "Y", "C", "L", "O", "N", "E", " ", "W", "I", "N", "D", " ", "S", "I", "G", "N", "A", "L", "S">>, <<"T", "C", "W", "S">>, <<"W", "I", "N", "D", " ", "S", "I", "G", "N", "A", "L", "S">>>>

\* CONFIG REGIONS
RegionText == [Luzon |-> <<"L", "u", "z", "o", "n">>, Visayas |-> <<"V", "i", "s", "a", "y", "a", "s">>, Mindanao |-> <<"M", "i", "n", "d", "a", "n", "a", "o">>]

AnchorFloor == <<8, 10>>

HAZARDS == <<"H", "A", "Z", "A", "R", "D", "S">>

None == <<"n", "o", "n", "e">>

\* _flatten_tables: the cleaned row of an original row
clean_row(row) == [k \in 1..Len(row) |-> clean_cell(row[k])]

\* lines 254-257: the region columns after the cells of one cleaned row
columns_after(col_map, check_row) ==
    [region \in DOMAIN col_map |->
        LET hits == {k \in 1..Len(check_row) :
                        Contains(check_row[k], ToLower(RegionText[region]))}
        IN  IF col_map[region] # 0 \/ hits = {} THEN col_map[region]
            ELSE CHOOSE k \in hits : \A h \in hits : k <= h]

\* lines 252-262: the rows check_idx..last looked at for region headers
RECURSIVE check_rows(_, _, _, _)
check_rows(rows, check_idx, last, col_map) ==
    LET after == columns_after(col_map, clean_row(rows[check_idx]))
    IN  IF check_idx > last
        THEN [found_header |-> FALSE, header_idx |-> 0, col_map |-> col_map]
        ELSE IF \A region \in DOMAIN after : after[region] # 0
        THEN [found_header |-> TRUE, header_idx |-> check_idx, col_map |-> after]
        ELSE check_rows(rows, check_idx + 1, last, after)

\* lines 247-264: the search for the header, from cell c of row i on;
\* confidence gives HeaderMatcher.match(cell, tcws aliases)
RECURSIVE find_header(_, _, _, _, _)
find_header(rows, i, c, col_map, confidence) ==
    LET cell == clean_row(rows[i])[c]
        window == check_rows(rows, i, Min(i + 4, Len(rows)), col_map)
    IN  IF i > Len(rows)
        THEN [found_header |-> FALSE, header_idx |-> 0, col_map |-> col_map]
        ELSE IF c > Len(rows[i]) THEN find_header(rows, i + 1, 1, col_map, confidence)
        ELSE IF ~RatGT(confidence[cell], AnchorFloor)
        THEN find_header(rows, i, c + 1, col_map, confidence)
        ELSE IF window.found_header THEN window
        ELSE find_header(rows, i, c + 1, window.col_map, confidence)

\* lines 291-306: the record of one signal row
signal_record(row, col_map) ==
    LET val(region) == Strip(row[col_map[region]])
        kept(region) == /\ col_map[region] <= Len(row)
                        /\ row[col_map[region]] # <<>>
                        /\ val(region) # <<>>
                        /\ val(region) # Dash
                        /\ ToLower(val(region)) # None
    IN  [value |-> [region \in DOMAIN col_map |->
                       IF kept(region) THEN join_lines(val(region)) ELSE NULL],
         confidence |-> IF \E region \in DOMAIN col_map : kept(region)
                        THEN <<9, 10>> ELSE <<5, 10>>]

\* dict assignment extracted[key] = record
store(extracted, key, record) ==
    [n \in DOMAIN extracted \cup {key} |-> IF n = key THEN record ELSE extracted[n]]

(* _extract_signals run on one list of rows, row by row *)

MaxSignalRows == 4

SignalRowKinds ==
    {<<<<"T", "C", "W", "S">>, <<"L", "u", "z", "o", "n">>, <<"V", "i", "s", "a", "y", "a", "s">>, <<"M", "i", "n", "d", "a", "n", "a", "o">>>>,
     <<<<"T", "C", "W", "S">>, <<"L", "u", "z", "o", "n">>>>,
     <<<<"1">>, <<"A", "b", "r", "a">>, <<"-">>, <<"-">>>>,
     <<<<"1">>, <<"-">>, <<"C", "e", "b", "u">>, <<"-">>>>,
     <<<<"2">>, <<"A", "b", "r", "a">>, <<"-">>, <<"-">>>>,
     <<<<"2">>, <<"-">>, <<"C", "e", "b", "u">>, <<"-">>>>,
     <<<<"H", "A", "Z", "A", "R", "D", "S">>>>,
     <<<<>>>>}

SignalCells == UNION {{row[k] : k \in 1..Len(row)} : row \in SignalRowKinds}

\* HeaderMatcher.match(cell, tcws aliases) on the cleaned cells of the rows
tcws_confidence ==
    [cell \in {clean_cell(c) : c \in SignalCells} |-> match(cell, tcws)]

SignalGridsUpTo(rows) == UNION {[1..n -> SignalRowKinds] : n \in 0..rows}

InitSignals ==
    /\ sg_rows \in SignalGridsUpTo(MaxSignalRows)
    /\ sg_col_map = NoColumns
    /\ sg_i = 0
    /\ sg_extracted = <<>>
    /\ pc = "call"
    /\ IdleButSignals

\* lines 239-267: the header search
FindSignalHeader ==
    /\ pc = "call"
    /\ LET h == find_header(sg_rows, 1, 1, NoColumns, tcws_confidence)
       IN  /\ sg_col_map' = h.col_map
           /\ sg_i' = IF h.found_header THEN h.header_idx + 1 ELSE 0
           /\ pc' = IF h.found_header THEN "rows" ELSE "done"
    /\ UNCHANGED <<sg_rows, sg_extracted, butSignals>>

\* lines 270-306: one turn of the second loop
SignalRow ==
    /\ pc = "rows"
    /\ sg_i <= Len(sg_rows)
    /\ LET row == sg_rows[sg_i]
           first_cell == IF row # <<>> /\ row[1] # <<>> THEN Strip(row[1]) ELSE <<>>
           sig_num == signal_number(first_cell)
       IN  IF \A k \in 1..Len(row) : row[k] = <<>>
           THEN /\ sg_i' = sg_i + 1
                /\ UNCHANGED <<sg_extracted, pc>>
           ELSE IF \E k \in 1..Len(row) : Contains(row[k], HAZARDS)
           THEN /\ pc' = "done"
                /\ UNCHANGED <<sg_extracted, sg_i>>
           ELSE /\ sg_i' = sg_i + 1
                /\ sg_extracted' = IF sig_num > 0
                                   THEN store(sg_extracted, sig_num,
                                              signal_record(row, sg_col_map))
                                   ELSE sg_extracted
                /\ pc' = pc
    /\ UNCHANGED <<sg_rows, sg_col_map, butSignals>>

\* line 308: the rows are exhausted
SignalsReturn ==
    /\ pc = "rows"
    /\ sg_i > Len(sg_rows)
    /\ pc' = "done"
    /\ UNCHANGED <<sgVars, butSignals>>

NextSignals == FindSignalHeader \/ SignalRow \/ SignalsReturn

SpecSignals == InitSignals /\ [][NextSignals]_vars

\* C1: during one extraction a location stored for a (signal level, region)
\* pair is not changed or cleared by a later row with the same signal number.
C1_StoredValueKept ==
    [][\A n \in DOMAIN sg_extracted :
          \A region \in DOMAIN sg_extracted[n].value :
              sg_extracted[n].value[region] # NULL
                  => /\ n \in DOMAIN sg_extracted'
                     /\ sg_extracted'[n].value[region] = sg_extracted[n].value[region]]_vars

----------------------------------------------------------------------------
(* TableParser.parse: the signal records of the result (table_parser.py)   *)

\* lines 105-109: the record of a level before extraction
NoSignal ==
    [value |-> [Luzon |-> NULL, Visayas |-> NULL, Mindanao |-> NULL],
     confidence |-> Zero]

\* lines 125-129: signal_warning_tags1..5 of the result
signal_warning_tags(signals) ==
    [i \in 1..5 |-> IF i \in DOMAIN signals THEN signals[i] ELSE NoSignal]

AnchorRow == <<<<"T", "C", "W", "S">>, <<"L", "u", "z", "o", "n">>, <<"V", "i", "s", "a", "y", "a", "s">>, <<"M", "i", "n", "d", "a", "n", "a", "o">>>>

IslandGroupKeys == {"Luzon", "Visayas", "Mindanao", "Other"}

\* the text of a cell as the claim reads it: "-", "" and "none" are null
column_text(cell) ==
    IF Strip(cell) = <<>> \/ Strip(cell) = Dash \/ ToLower(Strip(cell)) = None
    THEN NULL ELSE join_lines(Strip(cell))

\* C11: for a grid of the anchor row and one row [n, l, v, m] the record of
\* level n has exactly the keys Luzon, Visayas, Mindanao and Other; the region
\* keys hold their column's text, null for "-" and "none", and Other is null.
C11_FourKeys ==
    (/\ pc = "done"
     /\ Len(sg_rows) = 2
     /\ sg_rows[1] = AnchorRow
     /\ Len(sg_rows[2]) = 4
     /\ signal_number(Strip(sg_rows[2][1])) > 0)
        => LET n == signal_number(Strip(sg_rows[2][1]))
               record == signal_warning_tags(sg_extracted)[n].value
           IN  /\ DOMAIN record = IslandGroupKeys
               /\ record.Luzon = column_text(sg_rows[2][2])
               /\ record.Visayas = column_text(sg_rows[2][3])
               /\ record.Mindanao = column_text(sg_rows[2][4])
               /\ record.Other = NULL

----------------------------------------------------------------------------
(* SignalWarningExtractor (typhoon_extraction_ml.py)                       *)

\* the positions of text from position from on where the literal stands
found_at(text, from, literal) ==
    {p \in from..(Len(text) - Len(literal) + 1) :
        SubSeq(text, p, p + Len(literal) - 1) = literal}

\* str.replace(old, new)
RECURSIVE replace(_, _, _)
replace(text, old, new) ==
    With(found_at(text, 1, old),
         LAMBDA hits :
            IF hits = {} THEN text
            ELSE With(CHOOSE p \in hits : \A q \in hits : p <= q,
                      LAMBDA p : SubSeq(text, 1, p - 1) \o new
                                     \o replace(SubSeq(text, p + Len(old), Len(text)),
                                                old, new)))

\* str.split(sep) for a separator of any length
RECURSIVE split_text(_, _)
split_text(text, sep) ==
    With(found_at(text, 1, sep),
         LAMBDA hits :
            IF hits = {} THEN <<text>>
            ELSE With(CHOOSE p \in hits : \A q \in hits : p <= q,
                      LAMBDA p : <<SubSeq(text, 1, p - 1)>>
                                     \o split_text(SubSeq(text, p + Len(sep), Len(text)),
                                                   sep)))

\* text.isdigit() and int(text) in range(1, 6): the signal number, 0 if not
signal_line(text) ==
    IF /\ text # <<>>
       /\ \A k \in 1..(Len(text) - 1) : text[k] = "0"
       /\ text[Len(text)] \in {"1", "2", "3", "4", "5"}
    THEN CHOOSE n \in 1..5 : text[Len(text)] = <<"1", "2", "3", "4", "5">>[n]
    ELSE 0

ImpactOpeners == {<<"s", "t", "r", "o", "n", "g", " ", "w", "i", "n", "d", "s">>, <<"p", "r", "e", "v", "a", "i", "l", "i", "n", "g">>, <<"e", "x", "p", "e", "c", "t", "e", "d">>}

LocationOpeners ==
    {<<"p", "o", "r", "t", "i", "o", "n", " ", "o", "f">>, <<"a", "r", "e", "a", " ", "o", "f">>, <<"i", "s", "l", "a", "n", "d", " ", "o", "f">>, <<"i", "s", "l", "a", "n", "d", "s", " ", "o", "f">>, <<"p", "r", "o", "v", "i", "n", "c", "e", " ", "o", "f">>,
     <<"c", "i", "t", "y", " ", "o", "f">>, <<"m", "u", "n", "i", "c", "i", "p", "a", "l", "i", "t", "y", " ", "o", "f">>, <<"m", "u", "n", "i", "c", "i", "p", "a", "l", "i", "t", "i", "e", "s", " ", "o", "f">>, <<"b", "a", "r", "a", "n", "g", "a", "y", " ", "o", "f">>,
     <<"b", "a", "r", "a", "n", "g", "a", "y", "s", " ", "o", "f">>, <<"n", "o", "r", "t", "h", "e", "r", "n">>, <<"s", "o", "u", "t", "h", "e", "r", "n">>, <<"e", "a", "s", "t", "e", "r", "n">>, <<"w", "e", "s", "t", "e", "r", "n">>}

LocationKinds ==
    {<<"I", "s", "l", "a", "n", "d">>, <<"I", "s", "l", "a", "n", "d", "s">>, <<"P", "r", "o", "v", "i", "n", "c", "e">>, <<"C", "i", "t", "y">>, <<"M", "u", "n", "i", "c", "i", "p", "a", "l", "i", "t", "y">>,
     <<"B", "a", "r", "a", "n", "g", "a", "y">>, <<"R", "e", "g", "i", "o", "n">>}

ImpactWords ==
    {<<"p", "r", "e", "v", "a", "i", "l", "i", "n", "g">>, <<"e", "x", "p", "e", "c", "t", "e", "d">>, <<"w", "i", "t", "h", "i", "n">>, <<"h", "o", "u", "r", "s">>, <<"t", "h", "r", "e", "a", "t">>, <<"p", "r", "o", "p", "e", "r", "t", "y">>,
     <<"d", "a", "n", "g", "e", "r">>, <<"d", "a", "m", "a", "g", "e">>}

\* line 366: the start of the leftmost match of (?:portion of|...)\s+(.+) in
\* the line, 0 when there is none
location_match(line_text) ==
    LET starts == {p \in 1..Len(line_text) :
                     \E o \in LocationOpeners :
                        /\ literal_at(line_text, p, o)
                        /\ \E k \in 1..ws_run(line_text, p + Len(o)) :
                              /\ p + Len(o) + k <= Len(line_text)
                              /\ line_text[p + Len(o) + k] # "\n"}
    IN  IF starts = {} THEN 0 ELSE CHOOSE p \in starts : \A q \in starts : p <= q

\* _filter_impact_descriptions_from_location_lines: the loop from line k on
RECURSIVE filter_lines(_, _, _, _)
filter_lines(raw_lines, k, impact_description_mode, location_lines) ==
    IF k > Len(raw_lines) THEN location_lines
    ELSE LET line_text == raw_lines[k]
             line_lower == ToLower(line_text)
             start == location_match(line_text)
         IN  IF /\ StartsWith(line_lower, <<"(">>)
                /\ \E kw \in ImpactOpeners : Contains(line_lower, kw)
             THEN filter_lines(raw_lines, k + 1, TRUE,
                      IF start # 0
                      THEN Append(location_lines,
                                  Strip(SubSeq(line_text, start, Len(line_text))))
                      ELSE location_lines)
             ELSE IF impact_description_mode
             THEN IF \E loc \in LocationKinds : Contains(line_text, loc)
                  THEN filter_lines(raw_lines, k + 1, FALSE,
                                    Append(location_lines, line_text))
                  ELSE IF \E kw \in ImpactWords : Contains(line_lower, kw)
                  THEN filter_lines(raw_lines, k + 1, TRUE, location_lines)
                  ELSE filter_lines(raw_lines, k + 1, TRUE,
                                    Append(location_lines, line_text))
             ELSE filter_lines(raw_lines, k + 1, FALSE,
                               Append(location_lines, line_text))

filter_impact_descriptions_from_location_lines(raw_lines) ==
    filter_lines(raw_lines, 1, FALSE, <<>>)

EndMarkers == {<<"P", "O", "T", "E", "N", "T", "I", "A", "L", " ", "I", "M", "P", "A", "C", "T", "S">>, <<"H", "A", "Z", "A", "R", "D", "S">>}

\* str.upper() on one character
UpperChar(c) ==
    IF \E i \in 1..Len(LOWER) : LOWER[i] = c
    THEN UPPER[CHOOSE i \in 1..Len(LOWER) : LOWER[i] = c]
    ELSE c

ToUpper(s) == [i \in 1..Len(s) |-> UpperChar(s[i])]

\* lines 410-425: the index of the line that ends the block begun at line i
RECURSIVE block_end(_, _)
block_end(lines, i) ==
    IF i > Len(lines) THEN i
    ELSE IF signal_line(Strip(lines[i])) # 0 THEN i
    ELSE IF \E marker \in EndMarkers : Contains(ToUpper(Strip(lines[i])), marker) THEN i
    ELSE block_end(lines, i + 1)

\* the non-empty stripped lines i..last
RECURSIVE raw_lines_of(_, _, _)
raw_lines_of(lines, i, last) ==
    IF i > last THEN <<>>
    ELSE IF Strip(lines[i]) = <<>> THEN raw_lines_of(lines, i + 1, last)
    ELSE <<Strip(lines[i])>> \o raw_lines_of(lines, i + 1, last)

\* lines 431-453: the Luzon, Visayas and Mindanao texts of a block
region_texts(location_lines) ==
    With(Strip(CollapseWs(replace(replace(join(location_lines, Space),
                                          <<" ", "-", " ", "-", " ">>, Space),
                                  <<" ", "-", " ", "-">>, <<>>))),
         LAMBDA full_text :
            With(split_text(full_text, <<" ", "-", " ">>),
                 LAMBDA parts :
                    IF Len(parts) >= 3
                    THEN <<Strip(parts[1]), Strip(parts[2]), Strip(parts[3])>>
                    ELSE IF Len(parts) = 2
                    THEN <<Strip(parts[1]), Strip(parts[2]), <<>>>>
                    ELSE <<Strip(full_text), <<>>, <<>>>>))

\* lines 456-461: the texts that are not empty and not "-" are stored
set_regions(record, texts) ==
    [record EXCEPT
        !.Luzon = IF texts[1] # <<>> /\ texts[1] # Dash THEN texts[1] ELSE @,
        !.Visayas = IF texts[2] # <<>> /\ texts[2] # Dash THEN texts[2] ELSE @,
        !.Mindanao = IF texts[3] # <<>> /\ texts[3] # Dash THEN texts[3] ELSE @]

\* _parse_format1_table: the loop from line i on
RECURSIVE parse_format1_from(_, _, _)
parse_format1_from(lines, i, result) ==
    IF i > Len(lines) THEN result
    ELSE With(signal_line(Strip(lines[i])),
              LAMBDA current_signal :
                 IF current_signal = 0 THEN parse_format1_from(lines, i + 1, result)
                 ELSE With(block_end(lines, i + 1),
                           LAMBDA next :
                              parse_format1_from(lines, next,
                                 [result EXCEPT ![current_signal] =
                                     set_regions(@, region_texts(
                                         filter_impact_descriptions_from_location_lines(
                                             raw_lines_of(lines, i + 1, next - 1))))])))

\* header_idx is the index of the header line
parse_format1_table(lines, header_idx, result) ==
    parse_format1_from(lines, header_idx + 1, result)

\* \b stands before and after the one character at position p
whole_word_at(text, p) ==
    /\ p = 1 \/ ~IsWordChar(text[p - 1])
    /\ p = Len(text) \/ ~IsWordChar(text[p + 1])

\* line 485: \n{sig_num}\n stands at position p
own_line_at(text, p, digit) ==
    /\ p + 2 <= Len(text)
    /\ text[p] = "\n" /\ text[p + 1] = digit /\ text[p + 2] = "\n"

\* re.finditer(rf'\n{sig_num}\n|\b{sig_num}\b', full_text) from position from on
RECURSIVE signal_matches_of(_, _, _)
signal_matches_of(text, from, sig_num) ==
    With(<<"1", "2", "3", "4", "5">>[sig_num],
         LAMBDA digit :
            With({p \in from..Len(text) :
                     \/ own_line_at(text, p, digit)
                     \/ text[p] = digit /\ whole_word_at(text, p)},
                 LAMBDA starts :
                    IF starts = {} THEN {}
                    ELSE With(CHOOSE p \in starts : \A q \in starts : p <= q,
                              LAMBDA first :
                                 With(IF own_line_at(text, first, digit)
                                      THEN first + 3 ELSE first + 1,
                                      LAMBDA end :
                                         {[start |-> first, sig_num |-> sig_num,
                                           end |-> end]}
                                             \cup signal_matches_of(text, end, sig_num)))))

\* lines 483-490: the matches of the five signal numbers, sorted by position
RECURSIVE sorted_by_start(_)
sorted_by_start(matches) ==
    IF matches = {} THEN <<>>
    ELSE With(CHOOSE m \in matches : \A o \in matches : m.start <= o.start,
              LAMBDA m : <<m>> \o sorted_by_start(matches \ {m}))

signal_matches(full_text) ==
    sorted_by_start(UNION {signal_matches_of(full_text, 1, n) : n \in 1..5})

ThreatMarkers ==
    {<<"w", "i", "n", "d", " ", "t", "h", "r", "e", "a", "t", ":">>, <<"g", "a", "l", "e", "-", "f", "o", "r", "c">>, <<"s", "t", "r", "o", "n", "g", " ", "w", "i", "n", "d", "s">>, <<"p", "r", "e", "v", "a", "i", "l", "i", "n", "g", " ", "w", "i", "n", "d", "s">>,
     <<"w", "a", "r", "n", "i", "n", "g", " ", "l", "e", "a", "d", " ", "t", "i", "m", "e", ":">>, <<"r", "a", "n", "g", "e", " ", "o", "f", " ", "w", "i", "n", "d", " ", "s", "p", "e", "e", "d", "s", ":">>, <<"p", "o", "t", "e", "n", "t", "i", "a", "l", " ", "i", "m", "p", "a", "c", "t", "s">>,
     <<"m", "i", "n", "o", "r", " ", "t", "o", " ", "m", "o", "d", "e", "r", "a", "t", "e">>, <<"m", "i", "n", "o", "r", " ", "t", "h", "r", "e", "a", "t">>, <<"m", "o", "d", "e", "r", "a", "t", "e", " ", "t", "h", "r", "e", "a", "t">>, <<"p", "r", "o", "p", "e", "r", "t", "y">>,
     <<"p", "a", "g", "e">>, <<"p", "r", "e", "p", "a", "r", "e", "d", " ", "b", "y">>, <<"w", "e", "a", "t", "h", "e", "r">>, <<"p", "a", "g", "a", "s", "a">>, <<"b", "u", "l", "l", "e", "t", "i", "n">>}

Artifacts == {<<"-">>, <<"-", "-">>, <<"-", " ", "-">>, <<"*">>, <<"*", "*">>}

\* lines 514-531: the lines of a block that are kept, from line k on
RECURSIVE clean_lines_of(_, _)
clean_lines_of(block_lines, k) ==
    IF k > Len(block_lines) THEN <<>>
    ELSE With(Strip(block_lines[k]),
              LAMBDA stripped :
                 IF \/ stripped = <<>>
                    \/ \E marker \in ThreatMarkers : Contains(ToLower(stripped), marker)
                    \/ stripped \in Artifacts
                 THEN clean_lines_of(block_lines, k + 1)
                 ELSE <<stripped>> \o clean_lines_of(block_lines, k + 1))

\* lines 534-535
block_location_text(signal_block) ==
    Strip(replace(replace(join(clean_lines_of(split_on(signal_block, "\n"), 1), Space),
                          <<" ", "a", "n", "d", " ">>, <<",", " ">>),
                  <<" ", " ">>, Space))

\* lines 495-537: extracted_signals after the matches from idx on
RECURSIVE extract_blocks(_, _, _, _)
extract_blocks(full_text, matches, idx, extracted_signals) ==
    IF idx > Len(matches) THEN extracted_signals
    ELSE With(Strip(SubSeq(full_text, matches[idx].end,
                           IF idx + 1 <= Len(matches) THEN matches[idx + 1].start - 1
                           ELSE Len(full_text))),
              LAMBDA signal_block :
                 extract_blocks(full_text, matches, idx + 1,
                    IF signal_block = <<>> THEN extracted_signals
                    ELSE store(extracted_signals, matches[idx].sig_num,
                               block_location_text(signal_block))))

\* re.split(r',\s*', text)
RECURSIVE split_commas(_)
split_commas(text) ==
    With(found_at(text, 1, <<",">>),
         LAMBDA hits :
            IF hits = {} THEN <<text>>
            ELSE With(CHOOSE p \in hits : \A q \in hits : p <= q,
                      LAMBDA p : <<SubSeq(text, 1, p - 1)>>
                                     \o split_commas(SubSeq(text,
                                            p + 1 + ws_run(text, p + 1), Len(text)))))

\* lines 550-559 without the test of line 552 on the length of the part
RECURSIVE assigned_parts_of_any_length(_, _, _)
assigned_parts_of_any_length(location_parts, island_group, location_matcher) ==
    IF location_parts = <<>> THEN <<>>
    ELSE With(Strip(Head(location_parts)),
              LAMBDA part :
                 IF /\ part # <<>>
                    /\ find_island_group(part, location_matcher) = island_group
                 THEN <<part>> \o assigned_parts_of_any_length(Tail(location_parts),
                                     island_group, location_matcher)
                 ELSE assigned_parts_of_any_length(Tail(location_parts), island_group,
                                                   location_matcher))

\* lines 550-559: the parts that find_island_group puts in island_group
RECURSIVE assigned_parts(_, _, _)
assigned_parts(location_parts, island_group, location_matcher) ==
    IF location_parts = <<>> THEN <<>>
    ELSE With(Strip(Head(location_parts)),
              LAMBDA part :
                 IF /\ Len(part) >= 2
                    /\ find_island_group(part, location_matcher) = island_group
                 THEN <<part>> \o assigned_parts(Tail(location_parts), island_group,
                                                 location_matcher)
                 ELSE assigned_parts(Tail(location_parts), island_group, location_matcher))

ISLAND_GROUPS == {"Luzon", "Visayas", "Mindanao"}

\* classified, with a record of the three island groups only
classified_island_groups_only(record, location_text, location_matcher) ==
    With([island_group \in ISLAND_GROUPS |->
             assigned_parts(split_commas(location_text), island_group, location_matcher)],
         LAMBDA island_assignments :
            IF \A island_group \in ISLAND_GROUPS : island_assignments[island_group] = <<>>
            THEN [island_group \in ISLAND_GROUPS |->
                     IF island_group = "Luzon" THEN location_text ELSE NULL]
            ELSE [island_group \in ISLAND_GROUPS |->
                     IF island_assignments[island_group] # <<>>
                     THEN join(island_assignments[island_group], <<",", " ">>)
                     ELSE NULL])

\* lines 545-568: the record of one signal after its location text
classified(record, location_text, location_matcher) ==
    With([island_group \in ISLAND_GROUPS |->
             assigned_parts(split_commas(location_text), island_group, location_matcher)],
         LAMBDA island_assignments :
            IF \A island_group \in ISLAND_GROUPS : island_assignments[island_group] = <<>>
            THEN [record EXCEPT !.Luzon = location_text]
            ELSE [key \in DOMAIN record |->
                     IF key \in ISLAND_GROUPS /\ island_assignments[key] # <<>>
                     THEN join(island_assignments[key], <<",", " ">>)
                     ELSE record[key]])

\* _parse_format2_table
parse_format2_table(lines, result, location_matcher) ==
    With(join(lines, <<"\n">>),
         LAMBDA full_text :
            With(extract_blocks(full_text, signal_matches(full_text), 1, <<>>),
                 LAMBDA extracted_signals :
                    [sig_num \in DOMAIN result |->
                        IF sig_num \in DOMAIN extracted_signals
                               /\ extracted_signals[sig_num] # <<>>
                        THEN classified(result[sig_num], extracted_signals[sig_num],
                                        location_matcher)
                        ELSE result[sig_num]]))

\* lines 189-193 (and 145-151): every level with every island group None
no_warnings(levels) == [level \in 1..levels |-> NoIslands]

\* the least position from which one of the phrases (words joined by \s+)
\* stands in text, 0 when there is none
first_phrase_at(text, from, phrases) ==
    LET starts == {p \in from..Len(text) :
                     \E words \in phrases : phrase_end(text, p, words) # 0}
    IN  IF starts = {} THEN 0 ELSE CHOOSE p \in starts : \A q \in starts : p <= q

\* (.*?)(?:a|b|...|$) from position from on: the lazy group ends before the
\* first terminator, before a final newline or at the end of the text
lazy_group(text, from, terminators) ==
    With(first_phrase_at(text, from, terminators),
         LAMBDA stop_at :
            With(IF text # <<>> /\ text[Len(text)] = "\n" /\ Len(text) >= from
                 THEN Len(text) ELSE Len(text) + 1,
                 LAMBDA end_at :
                    SubSeq(text, from,
                           (IF stop_at # 0 THEN Min(stop_at, end_at) ELSE end_at) - 1)))

SignalTerminators ==
    {<<<<"h", "a", "z", "a", "r", "d", "s">>, <<"a", "f", "f", "e", "c", "t", "i", "n", "g">>, <<"l", "a", "n", "d">>>>,
     <<<<"h", "e", "a", "v", "y">>, <<"r", "a", "i", "n", "f", "a", "l", "l">>>>,
     <<<<"t", "r", "a", "c", "k">>, <<"a", "n", "d">>, <<"i", "n", "t", "e", "n", "s", "i", "t", "y">>, <<"o", "u", "t", "l", "o", "o", "k">>>>}

\* TROPICAL\s+CYCLONE\s+WIND\s+SIGNALS[^I]*IN\s+EFFECT at position p: the
\* position after the match, 0 when there is none
signal_header_end(text, p) ==
    With(phrase_end(text, p, <<<<"t", "r", "o", "p", "i", "c", "a", "l">>, <<"c", "y", "c", "l", "o", "n", "e">>, <<"w", "i", "n", "d">>, <<"s", "i", "g", "n", "a", "l", "s">>>>),
         LAMBDA e :
            IF e = 0 THEN 0
            ELSE With({q \in e..Len(text) : LowerChar(text[q]) = "i"},
                      LAMBDA is :
                         IF is = {} THEN 0
                         ELSE phrase_end(text, CHOOSE q \in is : \A r \in is : q <= r,
                                         <<<<"i", "n">>, <<"e", "f", "f", "e", "c", "t">>>>)))

\* _extract_signal_section; NULL for None
extract_signal_section(text) ==
    With({p \in 1..Len(text) : signal_header_end(text, p) # 0},
         LAMBDA starts :
            IF starts = {} THEN NULL
            ELSE lazy_group(text,
                            signal_header_end(text,
                                CHOOSE p \in starts : \A q \in starts : p <= q),
                            SignalTerminators))

\* lines 198-202: the index of the header line, 0 when there is none
header_line(lines) ==
    LET found == {i \in 1..Len(lines) :
                     /\ Contains(ToLower(lines[i]), <<"t", "c", "w", "s", " ", "n", "o">>)
                     /\ Contains(ToLower(lines[i]), <<"l", "u", "z", "o", "n">>)}
    IN  IF found = {} THEN 0 ELSE CHOOSE i \in found : \A k \in found : i <= k

\* lines 205-210
is_format1(header_idx) == header_idx > 0

\* _is_format1_table, which both returns True unless "wind threat:" is in one
\* of the lines after the header
is_format1_table(lines, header_idx) ==
    ~\E i \in (header_idx + 1)..Min(header_idx + 29, Len(lines)) :
        Contains(ToLower(Strip(lines[i])), <<"w", "i", "n", "d", " ", "t", "h", "r", "e", "a", "t", ":">>)

\* _parse_signal_table
parse_signal_table(table_section, location_matcher) ==
    With(split_on(table_section, "\n"),
         LAMBDA lines :
            IF is_format1(header_line(lines))
            THEN parse_format1_table(lines, header_line(lines), no_warnings(5))
            ELSE parse_format2_table(lines, no_warnings(5), location_matcher))

\* extract_signals
extract_signals(text, location_matcher) ==
    IF Contains(ToLower(text), <<"n", "o", " ", "t", "r", "o", "p", "i", "c", "a", "l", " ", "c", "y", "c", "l", "o", "n", "e", " ", "w", "i", "n", "d", " ", "s", "i", "g", "n", "a", "l">>)
    THEN no_warnings(5)
    ELSE With(extract_signal_section(text),
              LAMBDA signal_section :
                 IF signal_section = NULL \/ signal_section = <<>> THEN no_warnings(5)
                 ELSE parse_signal_table(signal_section, location_matcher))

(* RainfallWarningExtractor.extract_rainfall_warnings *)

\* lines 642-645: the header phrase and the terminators of each pattern
RainfallSectionPatterns ==
    <<[header |-> <<<<"h", "a", "z", "a", "r", "d", "s">>, <<"a", "f", "f", "e", "c", "t", "i", "n", "g">>, <<"l", "a", "n", "d">>, <<"a", "r", "e", "a", "s">>>>,
       terminators |-> {<<<<"h", "a", "z", "a", "r", "d", "s", " ", "a", "f", "f", "e", "c", "t", "i", "n", "g", " ", "c", "o", "a", "s", "t", "a", "l", " ", "w", "a", "t", "e", "r", "s">>>>, <<<<"w", "i", "n", "d">>>>,
                        <<<<"t", "r", "a", "c", "k", " ", "a", "n", "d", " ", "i", "n", "t", "e", "n", "s", "i", "t", "y">>>>, <<<<"s", "e", "v", "e", "r", "e", " ", "w", "i", "n", "d", "s">>>>}],
      [header |-> <<<<"h", "e", "a", "v", "y">>, <<"r", "a", "i", "n", "f", "a", "l", "l">>>>,
       terminators |-> {<<<<"h", "a", "z", "a", "r", "d", "s", " ", "a", "f", "f", "e", "c", "t", "i", "n", "g", " ", "c", "o", "a", "s", "t", "a", "l", " ", "w", "a", "t", "e", "r", "s">>>>, <<<<"s", "e", "v", "e", "r", "e", " ", "w", "i", "n", "d", "s">>>>,
                        <<<<"w", "i", "n", "d">>>>, <<<<"t", "r", "a", "c", "k">>>>}]>>

\* _extract_rainfall_section from pattern k on; NULL for None
RECURSIVE extract_rainfall_section_from(_, _)
extract_rainfall_section_from(text, k) ==
    IF k > Len(RainfallSectionPatterns) THEN NULL
    ELSE With(first_phrase_at(text, 1, {RainfallSectionPatterns[k].header}),
              LAMBDA p :
                 IF p = 0 THEN extract_rainfall_section_from(text, k + 1)
                 ELSE lazy_group(text,
                                 phrase_end(text, p, RainfallSectionPatterns[k].header),
                                 RainfallSectionPatterns[k].terminators))

extract_rainfall_section(text) == extract_rainfall_section_from(text, 1)

extract_rainfall_warnings(text, location_matcher) ==
    With(extract_rainfall_section(text),
         LAMBDA rainfall_section :
            IF rainfall_section = NULL \/ rainfall_section = <<>> THEN no_warnings(3)
            ELSE parse_rainfall_section(rainfall_section, location_matcher))

(* TyphoonBulletinExtractor *)

\* _build_island_group_dict
build_island_group_dict(warnings_by_level, level) ==
    [island_group \in DOMAIN NoIslands |->
        IF /\ level \in DOMAIN warnings_by_level
           /\ island_group \in DOMAIN warnings_by_level[level]
        THEN warnings_by_level[level][island_group]
        ELSE NoIslands[island_group]]

(* TyphoonBulletinExtractor.extract_from_pdf on one text: the signal and   *)
(* rainfall tags                                                           *)

MaxBulletinLines == 3

\* the lines a bulletin text begins with
Preambles ==
    {<<>>,
     <<<<"N", "o", " ", "T", "r", "o", "p", "i", "c", "a", "l", " ", "C", "y", "c", "l", "o", "n", "e", " ", "W", "i", "n", "d", " ", "S", "i", "g", "n", "a", "l">>>>,
     <<<<"T", "R", "O", "P", "I", "C", "A", "L", " ", "C", "Y", "C", "L", "O", "N", "E", " ", "W", "I", "N", "D", " ", "S", "I", "G", "N", "A", "L", "S", " ", "I", "N", " ", "E", "F", "F", "E", "C", "T">>>>,
     <<<<"T", "R", "O", "P", "I", "C", "A", "L", " ", "C", "Y", "C", "L", "O", "N", "E", " ", "W", "I", "N", "D", " ", "S", "I", "G", "N", "A", "L", "S", " ", "I", "N", " ", "E", "F", "F", "E", "C", "T">>, <<"T", "C", "W", "S", " ", "N", "o", ".", " ", "L", "u", "z", "o", "n", " ", "V", "i", "s", "a", "y", "a", "s", " ", "M", "i", "n", "d", "a", "n", "a", "o">>>>,
     <<<<"T", "R", "O", "P", "I", "C", "A", "L", " ", "C", "Y", "C", "L", "O", "N", "E", " ", "W", "I", "N", "D", " ", "S", "I", "G", "N", "A", "L", "S", " ", "I", "N", " ", "E", "F", "F", "E", "C", "T">>, <<"1">>, <<"X", "y", "z">>>>}

BulletinLines ==
    {<<"1">>, <<"2">>, <<"A", "b", "r", "a">>, <<"A", "b", "r", "a", " ", "-", " ", "C", "e", "b", "u">>, <<"X", "y", "z">>, <<"W", "i", "n", "d", " ", "t", "h", "r", "e", "a", "t", ":", " ", "S", "t", "r", "o", "n", "g", " ", "w", "i", "n", "d", "s">>,
     <<"H", "e", "a", "v", "y", " ", "R", "a", "i", "n", "f", "a", "l", "l">>, <<"M", "o", "d", "e", "r", "a", "t", "e", " ", "t", "o", " ", "h", "e", "a", "v", "y", " ", "r", "a", "i", "n", "s", " ", "o", "v", "e", "r", " ", "C", "e", "b", "u", ".">>}

BulletinsUpTo(lines) ==
    {join(preamble \o body, <<"\n">>) :
        preamble \in Preambles,
        body \in UNION {[1..n -> BulletinLines] : n \in 0..lines}}

InitBulletin ==
    /\ tb_text \in BulletinsUpTo(MaxBulletinLines)
    /\ tb_is_format1 = "unset"
    /\ tb_signals = <<>>
    /\ tb_rainfall = <<>>
    /\ tb_result = <<>>
    /\ pc = "call"
    /\ IdleButBulletin

\* line 890: extract_signals(full_text)
ExtractSignals ==
    /\ pc = "call"
    /\ tb_signals' = extract_signals(tb_text, location_dict)
    /\ tb_is_format1' =
           With(extract_signal_section(tb_text),
                LAMBDA signal_section :
                   IF \/ Contains(ToLower(tb_text), <<"n", "o", " ", "t", "r", "o", "p", "i", "c", "a", "l", " ", "c", "y", "c", "l", "o", "n", "e", " ", "w", "i", "n", "d", " ", "s", "i", "g", "n", "a", "l">>)
                      \/ signal_section = NULL \/ signal_section = <<>>
                   THEN "unset"
                   ELSE IF is_format1(header_line(split_on(signal_section, "\n")))
                   THEN "True" ELSE "False")
    /\ pc' = "signals"
    /\ UNCHANGED <<tb_text, tb_rainfall, tb_result, butBulletin>>

\* line 891: extract_rainfall_warnings(full_text)
ExtractRainfallWarnings ==
    /\ pc = "signals"
    /\ tb_rainfall' = extract_rainfall_warnings(tb_text, location_dict)
    /\ pc' = "rainfall"
    /\ UNCHANGED <<tb_text, tb_is_format1, tb_signals, tb_result, butBulletin>>

\* lines 894-907: the tags of the result
BuildResult ==
    /\ pc = "rainfall"
    /\ tb_result' =
           [signal_warning_tags |->
                [level \in 1..5 |-> build_island_group_dict(tb_signals, level)],
            rainfall_warning_tags |->
                [level \in 1..3 |-> build_island_group_dict(tb_rainfall, level)]]
    /\ pc' = "done"
    /\ UNCHANGED <<tb_text, tb_is_format1, tb_signals, tb_rainfall, butBulletin>>

NextBulletin == ExtractSignals \/ ExtractRainfallWarnings \/ BuildResult

SpecBulletin == InitBulletin /\ [][NextBulletin]_vars

\* C12: on every path the records of extract_signals (levels 1..5), of
\* extract_rainfall_warnings (levels 1..3) and of _build_island_group_dict have
\* exactly the keys Luzon, Visayas, Mindanao and Other, null values included.
C12_KeysPresent ==
    /\ pc \in {"signals", "rainfall", "done"}
           => /\ DOMAIN tb_signals = 1..5
              /\ \A level \in 1..5 : DOMAIN tb_signals[level] = IslandGroupKeys
    /\ pc \in {"rainfall", "done"}
           => /\ DOMAIN tb_rainfall = 1..3
              /\ \A level \in 1..3 : DOMAIN tb_rainfall[level] = IslandGroupKeys
    /\ pc = "done"
           => /\ \A level \in 1..5 :
                    DOMAIN tb_result.signal_warning_tags[level] = IslandGroupKeys
              /\ \A level \in 1..3 :
                    DOMAIN tb_result.rainfall_warning_tags[level] = IslandGroupKeys

\* a bulletin parsed with the stacked layout in which nothing is classified,
\* with a rainfall statement: set and null values side by side
C12_Witness ==
    /\ pc = "done"
    /\ tb_is_format1 = "False"
    /\ tb_result.signal_warning_tags[1].Luzon = <<"X", "y", "z">>
    /\ tb_result.signal_warning_tags[1].Other = NULL
    /\ tb_result.signal_warning_tags[2] = NoIslands
    /\ tb_result.rainfall_warning_tags[1].Visayas = <<"C", "e", "b", "u">>
    /\ tb_result.rainfall_warning_tags[1].Luzon = NULL

\* C13: _parse_signal_table uses the stacked layout (is_format1 False) whenever
\* "wind threat:" is in a line near the header line, and the columnar layout
\* (is_format1 True) otherwise.
C13_LayoutByWindThreat ==
    (pc \in {"signals", "rainfall", "done"} /\ tb_is_format1 # "unset")
        => LET lines == split_on(extract_signal_section(tb_text), "\n")
           IN  tb_is_format1 = IF is_format1_table(lines, header_line(lines))
                               THEN "True" ELSE "False"

----------------------------------------------------------------------------
(* MLTableParser.parse_page and its call in ml_parse_pipeline.  A region is  *)
(* [label, box] with box = <<xmin, ymin, xmax, ymax>>; a token is            *)
(* [text, x0, top, x1, bottom].  Coordinates are integers, a ratio is the    *)
(* pair <<numerator, denominator>>.                                          *)

\* lines 118-119: the regions with the label, in the detector's order
labelled(objects, label) == SelectSeq(objects, LAMBDA obj : obj.label = label)

\* the sort keys of lines 123 (axis 2) and 126 (axis 1), doubled:
\* ymin + ymax and xmin + xmax
center(obj, axis) == obj.box[axis] + obj.box[axis + 2]

\* list.sort(key=...): a stable sort, equal keys keep their order
RECURSIVE sort(_, _)
sort(objs, axis) ==
    IF objs = <<>> THEN <<>>
    ELSE With(sort(SubSeq(objs, 1, Len(objs) - 1), axis),
              LAMBDA sorted :
                 LET x == objs[Len(objs)]
                     before == {k \in 0..Len(sorted) :
                                   \A h \in 1..k : center(sorted[h], axis) <= center(x, axis)}
                     at == CHOOSE k \in before : \A h \in before : h <= k
                 IN  SubSeq(sorted, 1, at) \o <<x>> \o SubSeq(sorted, at + 1, Len(sorted)))

\* line 135: the grid of empty strings
empty_grid(rows, cols) == [r_idx \in 1..Len(rows) |-> [c_idx \in 1..Len(cols) |-> <<>>]]

\* line 140
w_box(word) == <<word.x0, word.top, word.x1, word.bottom>>

\* lines 153-158
cell_box(r_box, c_box) ==
    <<Max(r_box[1], c_box[1]), Max(r_box[2], c_box[2]),
      Min(r_box[3], c_box[3]), Min(r_box[4], c_box[4])>>

\* lines 162-172 without the test of line 167
overlap_ratio_of_any(box, cell) ==
    LET ix1 == Max(box[1], cell[1])
        iy1 == Max(box[2], cell[2])
        ix2 == Min(box[3], cell[3])
        iy2 == Min(box[4], cell[4])
    IN  <<(ix2 - ix1) * (iy2 - iy1), (box[3] - box[1]) * (box[4] - box[2])>>

\* lines 162-172: the overlap ratio of a token and a cell, Zero when line
\* 167 finds no intersection
overlap_ratio(box, cell) ==
    LET ix1 == Max(box[1], cell[1])
        iy1 == Max(box[2], cell[2])
        ix2 == Min(box[3], cell[3])
        iy2 == Min(box[4], cell[4])
    IN  IF ix2 > ix1 /\ iy2 > iy1
        THEN <<(ix2 - ix1) * (iy2 - iy1), (box[3] - box[1]) * (box[4] - box[2])>>
        ELSE Zero

Half == <<1, 2>>

\* lines 144-145: best_r and best_c are 0 where the code has -1
NoBest == [best_iou |-> Zero, best_r |-> 0, best_c |-> 0]

\* line 174 with the comparison "ratio >= 0.5"
better_from_half(overlap, best_iou) == RatGE(overlap, Half) /\ RatGT(overlap, best_iou)

\* line 174: ratio > 0.5 and ratio > best_iou
better(overlap, best_iou) == RatGT(overlap, Half) /\ RatGT(overlap, best_iou)

\* lines 147-176: the loops over the cells from cell (r_idx, c_idx) on
RECURSIVE best_from(_, _, _, _, _, _)
best_from(box, rows, cols, r_idx, c_idx, best) ==
    IF r_idx > Len(rows) THEN best
    ELSE IF c_idx > Len(cols) THEN best_from(box, rows, cols, r_idx + 1, 1, best)
    ELSE With(overlap_ratio(box, cell_box(rows[r_idx].box, cols[c_idx].box)),
              LAMBDA overlap :
                 With(IF better(overlap, best.best_iou)
                      THEN [best_iou |-> overlap, best_r |-> r_idx, best_c |-> c_idx]
                      ELSE best,
                      LAMBDA next : best_from(box, rows, cols, r_idx, c_idx + 1, next)))

\* lines 144-176 for one token, beginning with the best cell given
best_cell(box, rows, cols, best) == best_from(box, rows, cols, 1, 1, best)

\* lines 178-181 with the token put before the text of the cell
prepend_text(grid, best, word) ==
    IF best.best_r = 0 THEN grid
    ELSE [grid EXCEPT ![best.best_r][best.best_c] = Strip(word.text \o <<" ">> \o @)]

\* lines 178-181
append_text(grid, best, word) ==
    IF best.best_r = 0 THEN grid
    ELSE [grid EXCEPT ![best.best_r][best.best_c] = Strip(@ \o <<" ">> \o word.text)]

\* lines 138-181: the grid after the tokens from token k on
RECURSIVE assign_words(_, _, _, _, _)
assign_words(grid, rows, cols, words, k) ==
    IF k > Len(words) THEN grid
    ELSE With(append_text(grid, best_cell(w_box(words[k]), rows, cols, NoBest), words[k]),
              LAMBDA next : assign_words(next, rows, cols, words, k + 1))

\* parse_page with the regions the detector returns for the image
parse_page(objects, words) ==
    With(<<sort(labelled(objects, "table row"), 2), sort(labelled(objects, "table column"), 1)>>,
         LAMBDA sorted :
            IF sorted[1] = <<>> THEN <<>>
            ELSE assign_words(empty_grid(sorted[1], sorted[2]), sorted[1], sorted[2], words, 1))

----------------------------------------------------------------------------
(* ml_parse_pipeline: one page through MLTableParser.parse_page *)

MaxRegions == 3

MaxTokens == 3

\* what detect_tables returns: rows and columns that overlap their
\* neighbours, two rows with the same centre, and a region of another label
Regions ==
    {[label |-> "table row", box |-> <<0, 0, 4, 2>>],
     [label |-> "table row", box |-> <<0, 2, 4, 4>>],
     [label |-> "table row", box |-> <<0, 1, 4, 3>>],
     [label |-> "table row", box |-> <<0, 0, 4, 4>>],
     [label |-> "table column", box |-> <<0, 0, 2, 4>>],
     [label |-> "table column", box |-> <<2, 0, 4, 4>>],
     [label |-> "table column", box |-> <<1, 0, 3, 4>>],
     [label |-> "table", box |-> <<0, 0, 4, 4>>]}

\* what page.extract_words() returns, scaled: a token inside one cell, one
\* cut in half by a column border, one with two thirds in a column, and one
\* with the text of the first in another place
Tokens ==
    {[text |-> <<"a">>, x0 |-> 0, top |-> 0, x1 |-> 2, bottom |-> 2],
     [text |-> <<"b">>, x0 |-> 1, top |-> 0, x1 |-> 3, bottom |-> 2],
     [text |-> <<"c">>, x0 |-> 0, top |-> 0, x1 |-> 3, bottom |-> 2],
     [text |-> <<"a">>, x0 |-> 2, top |-> 1, x1 |-> 4, bottom |-> 3]}

SeqsUpTo(S, n) == UNION {[1..k -> S] : k \in 0..n}

InitGrid ==
    /\ mt_objects \in SeqsUpTo(Regions, MaxRegions)
    /\ mt_words \in SeqsUpTo(Tokens, MaxTokens)
    /\ mt_rows = <<>> /\ mt_cols = <<>> /\ mt_grid = <<>>
    /\ mt_w = 0 /\ mt_all_tables = <<>>
    /\ pc = "call"
    /\ IdleButGrid

\* lines 116-135: the regions are filtered and sorted; without rows the
\* empty list is returned
Detect ==
    /\ pc = "call"
    /\ mt_rows' = sort(labelled(mt_objects, "table row"), 2)
    /\ mt_cols' = sort(labelled(mt_objects, "table column"), 1)
    /\ IF mt_rows' = <<>>
       THEN mt_grid' = <<>> /\ pc' = "returned"
       ELSE mt_grid' = empty_grid(mt_rows', mt_cols') /\ pc' = "words"
    /\ UNCHANGED <<mt_objects, mt_words, mt_w, mt_all_tables, butGrid>>

\* lines 138-181: one turn of the loop over the tokens
AssignWord ==
    /\ pc = "words"
    /\ mt_w < Len(mt_words)
    /\ LET word == mt_words[mt_w + 1]
       IN  mt_grid' = append_text(mt_grid,
                                  best_cell(w_box(word), mt_rows, mt_cols, NoBest),
                                  word)
    /\ mt_w' = mt_w + 1
    /\ UNCHANGED <<mt_objects, mt_words, mt_rows, mt_cols, mt_all_tables, pc, butGrid>>

\* line 183
ReturnGrid ==
    /\ pc = "words"
    /\ mt_w = Len(mt_words)
    /\ pc' = "returned"
    /\ UNCHANGED <<mtVars, butGrid>>

\* ml_pipeline.py lines 155-161: a grid that is not empty is kept
KeepGrid ==
    /\ pc = "returned"
    /\ mt_all_tables' = IF mt_grid # <<>>
                        THEN Append(mt_all_tables, [page_number |-> 1, tables |-> <<mt_grid>>])
                        ELSE mt_all_tables
    /\ pc' = "done"
    /\ UNCHANGED <<mt_objects, mt_words, mt_rows, mt_cols, mt_grid, mt_w, butGrid>>

NextGrid == Detect \/ AssignWord \/ ReturnGrid \/ KeepGrid

SpecGrid == InitGrid /\ [][NextGrid]_vars

\* the cells of the grid in row-major order of the sorted rows and columns
Cells == {<<r_idx, c_idx>> : r_idx \in 1..Len(mt_rows), c_idx \in 1..Len(mt_cols)}

\* the overlap ratio of a token and a cell of the grid
cell_ratio(word, cell) ==
    overlap_ratio(w_box(word), cell_box(mt_rows[cell[1]].box, mt_cols[cell[2]].box))

row_major(cell) == (cell[1] - 1) * Len(mt_cols) + cell[2]

\* the cells whose ratio is strictly above one half and highest among those
top_cells(word) ==
    LET above == {cell \in Cells : RatGT(cell_ratio(word, cell), Half)}
    IN  {cell \in above : \A other \in above :
            RatGE(cell_ratio(word, cell), cell_ratio(word, other))}

first_cell(cells) == CHOOSE cell \in cells : \A other \in cells : row_major(cell) <= row_major(other)

\* C14: each turn of the token loop changes at most one cell: the token's
\* text is added to the cell with the highest overlap ratio among the cells
\* with ratio strictly above 0.5, the first in row-major order among equals;
\* a token with no cell above 0.5 changes no cell.
C14_BestCell ==
    [][AssignWord =>
          LET word == mt_words[mt_w + 1]
          IN  IF top_cells(word) = {} THEN mt_grid' = mt_grid
              ELSE LET cell == first_cell(top_cells(word))
                   IN  mt_grid' = [mt_grid EXCEPT ![cell[1]][cell[2]] =
                                      IF @ = <<>> THEN word.text
                                      ELSE @ \o <<" ">> \o word.text]]_vars

\* a page where one token has two cells with the same highest ratio and was
\* put in the first, and another token lies half in a cell and is in none
C14_Witness ==
    /\ pc = "done"
    /\ \E i \in 1..Len(mt_words) :
          /\ Cardinality(top_cells(mt_words[i])) = 2
          /\ LET cell == first_cell(top_cells(mt_words[i]))
             IN  mt_grid[cell[1]][cell[2]] = mt_words[i].text
    /\ \E i \in 1..Len(mt_words) :
          /\ top_cells(mt_words[i]) = {}
          /\ \E cell \in Cells : RatEq(cell_ratio(mt_words[i], cell), Half)
          /\ \A cell \in Cells : ~Contains(mt_grid[cell[1]][cell[2]], mt_words[i].text)

\* the orders in which n tokens can be given
orders(n) == {p \in [1..n -> 1..n] : \A i, j \in 1..n : p[i] = p[j] => i = j}

\* how often a token text stands in the text of a cell
count(cell_text, token_text) ==
    LET parts == split_on(cell_text, " ")
    IN  Cardinality({i \in 1..Len(parts) : parts[i] = token_text})

\* the indices, in input order, of the tokens whose best cell is the cell
tokens_of(cell) ==
    SelectSeq([i \in 1..Len(mt_words) |-> i],
              LAMBDA i : /\ top_cells(mt_words[i]) # {}
                         /\ first_cell(top_cells(mt_words[i])) = cell)

\* C15: for fixed regions the cell of a token depends on its box only: for
\* every permutation of the token list each cell holds the same multiset of
\* tokens, and the text of a cell is its tokens in input order joined by
\* single spaces.
C15_OrderIndependent ==
    pc = "done" =>
        /\ \A p \in orders(Len(mt_words)) :
              LET permuted == parse_page(mt_objects, [i \in 1..Len(mt_words) |-> mt_words[p[i]]])
              IN  /\ Len(permuted) = Len(mt_grid)
                  /\ \A cell \in Cells :
                        \A word \in Tokens :
                           count(permuted[cell[1]][cell[2]], word.text)
                               = count(mt_grid[cell[1]][cell[2]], word.text)
        /\ \A cell \in Cells :
              LET texts == [k \in 1..Len(tokens_of(cell)) |-> mt_words[tokens_of(cell)[k]].text]
              IN  mt_grid[cell[1]][cell[2]] = join(texts, <<" ">>)

\* three tokens, two of them in one cell and with different texts, so that
\* the orders of the input give different cell texts
C15_Witness ==
    /\ pc = "done"
    /\ Len(mt_words) = 3
    /\ \E cell \in Cells :
          /\ Len(tokens_of(cell)) >= 2
          /\ mt_words[tokens_of(cell)[1]].text # mt_words[tokens_of(cell)[2]].text
          /\ mt_grid[cell[1]][cell[2]]
                 = mt_words[tokens_of(cell)[1]].text \o <<" ">> \o mt_words[tokens_of(cell)[2]].text
                       \o IF Len(tokens_of(cell)) = 3 THEN <<" ">> \o mt_words[tokens_of(cell)[3]].text
                          ELSE <<>>
    /\ \E i \in 1..3 : top_cells(mt_words[i]) = {}

\* C16: when the detector yields no "table row" region or no "table column"
\* region, parse_page returns the empty grid, a list with no rows, and the
\* pipeline's test "if grid" keeps nothing for the page.
C16_EmptyGrid ==
    (pc \in {"returned", "done"} /\ (mt_rows = <<>> \/ mt_cols = <<>>))
        => /\ mt_grid = <<>>
           /\ pc = "done" => mt_all_tables = <<>>

----------------------------------------------------------------------------
(* LocationMatcher.__init__ and a call of find_island_group *)

\* line 48: self.priority, and 0 for a type that is not in it (line 56)
priority_of(location_type) ==
    CASE location_type = "Province" -> 5
      [] location_type = "Region" -> 4
      [] location_type = "City" -> 3
      [] location_type = "Municipality" -> 2
      [] location_type = "Barangay" -> 1
      [] OTHER -> 0

\* line 61 with the comparison ">="
replaces_on_equal(priority, stored_priority) == priority >= stored_priority

\* line 61: the row replaces the stored one
replaces(priority, stored_priority) == priority > stored_priority

\* lines 55-62: grouped after one row
grouped_with(grouped, row) ==
    LET name_key == ToLower(row.location_name)
        priority == priority_of(row.location_type)
        entry == [name |-> name_key, priority |-> priority, island_group |-> row.island_group]
        at == {k \in 1..Len(grouped) : grouped[k].name = name_key}
    IN  IF at = {} THEN Append(grouped, entry)
        ELSE LET k == CHOOSE k \in at : TRUE
             IN  IF replaces(priority, grouped[k].priority)
                 THEN [grouped EXCEPT ![k] = entry]
                 ELSE grouped

\* line 51
NoIslandGroups == [Luzon |-> {}, Visayas |-> {}, Mindanao |-> {}]

MaxReferenceRows == 3

ReferenceRows ==
    {[location_name |-> <<"A", "b", "r", "a">>, location_type |-> "Province", island_group |-> "Luzon"],
     [location_name |-> <<"A", "B", "R", "A">>, location_type |-> "Barangay", island_group |-> "Visayas"],
     [location_name |-> <<"A", "b", "r", "a">>, location_type |-> "Barangay", island_group |-> "Mindanao"],
     [location_name |-> <<"A", "b", "r", "a">>, location_type |-> "Province", island_group |-> "Mindanao"],
     [location_name |-> <<"a", "b", "r", "a">>, location_type |-> "Island", island_group |-> "Visayas"],
     [location_name |-> <<"A", "b", "r", "a", " ", "d", "e", " ", "I", "l", "o", "g">>, location_type |-> "Municipality", island_group |-> "Luzon"],
     [location_name |-> <<"C", "e", "b", "u">>, location_type |-> "City", island_group |-> "Visayas"],
     [location_name |-> <<"C", "e", "b", "u">>, location_type |-> "Region", island_group |-> "Other"]}

\* the names find_island_group is asked for
LocationNames ==
    {<<>>, <<" ">>, <<"A", "b", "r", "a">>, <<" ", "A", "B", "R", "A", " ">>, <<"A", "b", "r", "a", " ", "d", "e", " ", "I", "l", "o", "g">>, <<"b", "r", "a">>, <<"C", "e", "b", "u", " ", "C", "i", "t", "y">>,
     <<"C", "A", "R">>, <<"N", "C", "R">>, <<"B", "i", "c", "o", "l">>, <<"X", "y", "z">>}

InitMatcher ==
    /\ lm_rows \in SeqsUpTo(ReferenceRows, MaxReferenceRows)
    /\ lm_i = 0 /\ lm_grouped = <<>> /\ lm_location_dict = <<>>
    /\ lm_island_groups_dict = NoIslandGroups
    /\ lm_location_name = <<>> /\ lm_result = <<>>
    /\ pc = "rows"
    /\ IdleButMatcher

\* lines 54-62: one turn of the loop over the rows
ReadRow ==
    /\ pc = "rows"
    /\ lm_i < Len(lm_rows)
    /\ lm_grouped' = grouped_with(lm_grouped, lm_rows[lm_i + 1])
    /\ lm_i' = lm_i + 1
    /\ UNCHANGED <<lm_rows, lm_location_dict, lm_island_groups_dict, lm_location_name,
                   lm_result, pc, butMatcher>>

\* lines 64-67: the two dictionaries are filled from grouped
FillDicts ==
    /\ pc = "rows"
    /\ lm_i = Len(lm_rows)
    /\ lm_location_dict' = [k \in 1..Len(lm_grouped) |->
                               [name |-> lm_grouped[k].name, island |-> lm_grouped[k].island_group]]
    /\ lm_island_groups_dict' =
           [island_group \in DOMAIN NoIslandGroups |->
               {lm_grouped[k].name : k \in {h \in 1..Len(lm_grouped) :
                                               lm_grouped[h].island_group = island_group}}]
    /\ pc' = "built"
    /\ UNCHANGED <<lm_rows, lm_i, lm_grouped, lm_location_name, lm_result, butMatcher>>

\* lines 69-89: find_island_group(location_name)
FindIslandGroup ==
    /\ pc = "built"
    /\ \E location_name \in LocationNames :
          /\ lm_location_name' = location_name
          /\ lm_result' = find_island_group(location_name, lm_location_dict)
    /\ pc' = "done"
    /\ UNCHANGED <<lm_rows, lm_i, lm_grouped, lm_location_dict, lm_island_groups_dict,
                   butMatcher>>

NextMatcher == ReadRow \/ FillDicts \/ FindIslandGroup

SpecMatcher == InitMatcher /\ [][NextMatcher]_vars

\* the rows whose lowercased name is the key
rows_named(name_key) == {i \in 1..Len(lm_rows) : ToLower(lm_rows[i].location_name) = name_key}

\* the first of the rows with the highest type priority among the rows of a key
winner(name_key) ==
    LET top == {i \in rows_named(name_key) : \A h \in rows_named(name_key) :
                   priority_of(lm_rows[i].location_type) >= priority_of(lm_rows[h].location_type)}
    IN  CHOOSE i \in top : \A h \in top : i <= h

\* C17: once the matcher is built, the region stored for a lowercased name is
\* the island_group of the row with the highest type priority among the rows
\* of that name, the first such row among equals, in whatever order the rows
\* come; find_island_group returns that region for the name.
C17_HighestPriority ==
    pc \in {"built", "done"} =>
        /\ \A i \in 1..Len(lm_rows) :
              LET name_key == ToLower(lm_rows[i].location_name)
                  at == {k \in 1..Len(lm_location_dict) : lm_location_dict[k].name = name_key}
              IN  /\ Cardinality(at) = 1
                  /\ \A k \in at :
                        lm_location_dict[k].island = lm_rows[winner(name_key)].island_group
        /\ \A k \in 1..Len(lm_location_dict) : rows_named(lm_location_dict[k].name) # {}
        /\ (pc = "done" /\ lm_location_name # <<>>
               /\ rows_named(Strip(ToLower(lm_location_name))) # {})
              => lm_result = lm_rows[winner(Strip(ToLower(lm_location_name)))].island_group

\* a Barangay row, then a Province row, then a second Province row of the
\* same name, with three different regions: the first Province row is kept
C17_Witness ==
    /\ pc = "done"
    /\ Len(lm_rows) = 3
    /\ \A i \in 1..3 : ToLower(lm_rows[i].location_name) = <<"a", "b", "r", "a">>
    /\ lm_rows[1].location_type = "Barangay"
    /\ lm_rows[2].location_type = "Province"
    /\ lm_rows[3].location_type = "Province"
    /\ lm_rows[1].island_group # lm_rows[2].island_group
    /\ lm_rows[3].island_group # lm_rows[2].island_group
    /\ lm_location_name = <<" ", "A", "B", "R", "A", " ">>
    /\ lm_result = lm_rows[2].island_group

\* the region of the entry of the fixed table whose lowercased name is
\* name_lower, NoIsland if there is none
region_named(name_lower) ==
    LET hits == {k \in 1..Len(REGION_MAPPING) : ToLower(REGION_MAPPING[k].name) = name_lower}
    IN  IF hits = {} THEN NoIsland
        ELSE REGION_MAPPING[CHOOSE k \in hits : \A h \in hits : k <= h].island

\* the three steps in order: the key of the lookup table, the first known
\* name that contains the name or is contained in it, the fixed table by
\* equality and then by containment; NoIsland when all of them fail
three_steps(location_name, table) ==
    LET name_lower == Strip(ToLower(location_name))
        exact == {k \in 1..Len(table) : table[k].name = name_lower}
    IN  IF exact # {} THEN table[CHOOSE k \in exact : TRUE].island
        ELSE IF first_related(table, name_lower) # NoIsland
        THEN first_related(table, name_lower)
        ELSE IF region_named(name_lower) # NoIsland THEN region_named(name_lower)
        ELSE first_related(REGION_MAPPING, name_lower)

\* C18: find_island_group returns the region of the name's key in the lookup
\* table; otherwise that of the first known name, in table order, that
\* contains the name or is contained in it; otherwise that of the fixed
\* region-name table, by equality and then by containment; and null exactly
\* when all three steps fail.
C18_ThreeSteps ==
    pc = "done" => lm_result = three_steps(lm_location_name, lm_location_dict)

----------------------------------------------------------------------------
(* parse_locations_text in two steps: the text is cut into parts, then the *)
(* parts are processed.                                                    *)

MaxPartWords == 4

\* words of a location text with a parenthesised list
ParenWords == {Abra, <<"(", "C", "e", "b", "u">>, <<"C", "e", "b", "u", ")">>, <<"(", "C", "e", "b", "u", ")">>}

PartTextsUpTo(words) ==
    UNION {{interleave(ws, ss) : ws \in [1..n -> ParenWords],
                                 ss \in [1..(n - 1) -> {Space, <<",", " ">>}]}
           : n \in 1..words}

InitParts ==
    /\ tk_valid \in {Gazetteer, {}}
    /\ tk_text \in PartTextsUpTo(MaxPartWords)
    /\ tk_parts = <<>>
    /\ tk_out = NoParse
    /\ pc = "call"
    /\ IdleButParts

\* lines 124-147
SplitParts ==
    /\ pc = "call"
    /\ IF no_locations(tk_text)
       THEN tk_parts' = <<>> /\ pc' = "done"
       ELSE tk_parts' = parts_of(normalized(tk_text)) /\ pc' = "parts"
    /\ UNCHANGED <<tk_valid, tk_text, tk_out, butParts>>

\* lines 150-330
ProcessParts ==
    /\ pc = "parts"
    /\ tk_out' = parse_parts(tk_parts, 1, NoParse, tk_valid)
    /\ pc' = "done"
    /\ UNCHANGED <<tk_valid, tk_text, tk_parts, butParts>>

NextParts == SplitParts \/ ProcessParts

SpecParts == InitParts /\ [][NextParts]_vars

\* C19: the text is cut at the commas outside parentheses only: a comma
\* inside a group "( ... )" separates no two tokens, so that
\* "Abra (Cebu, Cebu), Abra" has two tokens and not three.
C19_ParenthesisDepth ==
    pc \in {"parts", "done"} => tk_parts = parts_outside_parentheses(normalized(tk_text))

----------------------------------------------------------------------------
(* TableParser._extract_datetime (table_parser.py)                         *)

\* the position after a match of r"(?i)issued\s*at\s*" at position p, 0 if
\* there is none
issued_at_end(text, p) ==
    LET at == p + 6 + ws_run(text, p + 6)
    IN  IF literal_at(text, p, <<"i", "s", "s", "u", "e", "d">>) /\ literal_at(text, at, <<"a", "t">>)
        THEN at + 2 + ws_run(text, at + 2)
        ELSE 0

\* re.sub(r"(?i)issued\s*at\s*", "", text) from position p on
RECURSIVE without_issued_at(_, _)
without_issued_at(text, p) ==
    With({q \in p..Len(text) : issued_at_end(text, q) > 0},
         LAMBDA hits :
            IF hits = {} THEN SubSeq(text, p, Len(text))
            ELSE LET q == CHOOSE q \in hits : \A h \in hits : q <= h
                 IN  SubSeq(text, p, q - 1) \o without_issued_at(text, issued_at_end(text, q)))

\* re.split(r"(?i)Valid|Synopsis", text)[0]
before_valid(text) ==
    LET hits == {p \in 1..Len(text) :
                    literal_at(text, p, <<"v", "a", "l", "i", "d">>) \/ literal_at(text, p, <<"s", "y", "n", "o", "p", "s", "i", "s">>)}
    IN  IF hits = {} THEN text
        ELSE SubSeq(text, 1, (CHOOSE p \in hits : \A h \in hits : p <= h) - 1)

\* lines 206-208
clean_val_of(raw_val) == Strip(before_valid(Strip(without_issued_at(raw_val, 1))))

\* lines 210-215: a format is its directives and literal characters
formats ==
    <<<<"%I", ":", "%M", " ", "%p", ",", " ", "%d", " ", "%B", " ", "%Y">>,
      <<"%I", ":", "%M", " ", "%p", " ", "%d", " ", "%B", " ", "%Y">>,
      <<"%H", ":", "%M", ",", " ", "%d", " ", "%B", " ", "%Y">>,
      <<"%B", " ", "%d", ",", " ", "%Y", " ", "%I", ":", "%M", " ", "%p">>>>

MonthNames ==
    <<<<"j", "a", "n", "u", "a", "r", "y">>, <<"f", "e", "b", "r", "u", "a", "r", "y">>, <<"m", "a", "r", "c", "h">>, <<"a", "p", "r", "i", "l">>, <<"m", "a", "y">>, <<"j", "u", "n", "e">>, <<"j", "u", "l", "y">>,
      <<"a", "u", "g", "u", "s", "t">>, <<"s", "e", "p", "t", "e", "m", "b", "e", "r">>, <<"o", "c", "t", "o", "b", "e", "r">>, <<"n", "o", "v", "e", "m", "b", "e", "r">>, <<"d", "e", "c", "e", "m", "b", "e", "r">>>>

DigitChars == <<"0", "1", "2", "3", "4", "5", "6", "7", "8", "9">>

digit(c) == (CHOOSE n \in 1..10 : DigitChars[n] = c) - 1

\* text[p..p+n-1] is n digits
digits_at(text, p, n) ==
    /\ p >= 1 /\ p + n - 1 <= Len(text)
    /\ \A k \in p..(p + n - 1) : text[k] \in Digits

\* int() of the n digits at position p
RECURSIVE number_at(_, _, _)
number_at(text, p, n) ==
    IF n = 0 THEN 0
    ELSE 10 * number_at(text, p, n - 1) + digit(text[p + n - 1])

\* the ways a number of one or two digits within lowest..highest stands at
\* position p, two digits before one, as the alternatives of the regex do;
\* leading is whether "0d" is an alternative
numbers_at(text, p, lowest, highest, leading) ==
    (IF /\ digits_at(text, p, 2)
        /\ number_at(text, p, 2) \in lowest..highest
        /\ (text[p] # "0" \/ leading)
     THEN <<[end |-> p + 2, value |-> number_at(text, p, 2)]>> ELSE <<>>)
    \o (IF digits_at(text, p, 1) /\ number_at(text, p, 1) \in lowest..Min(highest, 9)
        THEN <<[end |-> p + 1, value |-> number_at(text, p, 1)]>> ELSE <<>>)

\* the alternatives, in the order the regex of _strptime tries them, for one
\* item of a format at position p of the text: the position after the item
\* and the value of the directive
alternatives(text, p, item) ==
    CASE item = "%I" -> numbers_at(text, p, 1, 12, TRUE)
      [] item = "%H" -> numbers_at(text, p, 0, 23, TRUE)
      [] item = "%M" -> numbers_at(text, p, 0, 59, TRUE)
      [] item = "%d" ->
            numbers_at(text, p, 1, 31, TRUE)
            \o (IF p + 1 <= Len(text) /\ text[p] = " " /\ text[p + 1] \in Digits \ {"0"}
                THEN <<[end |-> p + 2, value |-> digit(text[p + 1])]>> ELSE <<>>)
      [] item = "%Y" ->
            IF digits_at(text, p, 4)
            THEN <<[end |-> p + 4, value |-> number_at(text, p, 4)]>> ELSE <<>>
      [] item = "%p" ->
            IF literal_at(text, p, <<"a", "m">>) THEN <<[end |-> p + 2, value |-> 0]>>
            ELSE IF literal_at(text, p, <<"p", "m">>) THEN <<[end |-> p + 2, value |-> 1]>>
            ELSE <<>>
      [] item = "%B" ->
            LET months == {m \in 1..12 : literal_at(text, p, MonthNames[m])}
            IN  IF months = {} THEN <<>>
                ELSE LET m == CHOOSE m \in months : TRUE
                     IN  <<[end |-> p + Len(MonthNames[m]), value |-> m]>>
      [] item = " " ->
            [k \in 1..ws_run(text, p) |-> [end |-> p + ws_run(text, p) - k + 1, value |-> 0]]
      [] OTHER ->
            IF p <= Len(text) /\ text[p] = item
            THEN <<[end |-> p + 1, value |-> 0]>> ELSE <<>>

NoMatch == [end |-> 0]

\* format_regex.match(data_string): the first match in the order of the
\* alternatives, from item k of the format and position p of the text on
RECURSIVE format_match_from(_, _, _, _, _)
RECURSIVE first_format_match(_, _, _, _, _, _)
format_match_from(text, p, fmt, k, found) ==
    IF k > Len(fmt) THEN [end |-> p, found |-> found]
    ELSE With(alternatives(text, p, fmt[k]),
              LAMBDA alts : first_format_match(text, fmt, k, found, alts, 1))

first_format_match(text, fmt, k, found, alts, j) ==
    IF j > Len(alts) THEN NoMatch
    ELSE With(format_match_from(text, alts[j].end, fmt, k + 1,
                         IF fmt[k] \in {"%I", "%H", "%M", "%d", "%Y", "%p", "%B"}
                         THEN found @@ (fmt[k] :> alts[j].value) ELSE found),
              LAMBDA found_match :
                 IF found_match # NoMatch THEN found_match
                 ELSE first_format_match(text, fmt, k, found, alts, j + 1))

\* calendar.monthrange
days_in(year, month) ==
    IF month = 2
    THEN IF year % 4 = 0 /\ (year % 100 # 0 \/ year % 400 = 0) THEN 29 ELSE 28
    ELSE IF month \in {4, 6, 9, 11} THEN 30 ELSE 31

\* the hour of the day from %H, or from %I and %p
hour_of(found) ==
    IF "%H" \in DOMAIN found THEN found["%H"]
    ELSE IF found["%p"] = 0
    THEN (IF found["%I"] = 12 THEN 0 ELSE found["%I"])
    ELSE (IF found["%I"] = 12 THEN 12 ELSE found["%I"] + 12)

\* datetime.strptime(data_string, fmt): the time, or NoTime for ValueError
strptime(data_string, fmt) ==
    With(format_match_from(data_string, 1, fmt, 1, <<>>),
         LAMBDA found_match :
            IF found_match = NoMatch \/ found_match.end # Len(data_string) + 1 THEN NoTime
            ELSE IF \/ found_match.found["%Y"] < 1
                    \/ found_match.found["%d"] > days_in(found_match.found["%Y"], found_match.found["%B"])
            THEN NoTime
            ELSE [year |-> found_match.found["%Y"], month |-> found_match.found["%B"],
                  day |-> found_match.found["%d"], hour |-> hour_of(found_match.found),
                  minute |-> found_match.found["%M"]])

\* CONFIG["DEFAULT_TIMEZONE_OFFSET"]
DEFAULT_TIMEZONE_OFFSET == 8

\* the decimal digits of n in the given width, with leading zeros
RECURSIVE zero_padded(_, _)
zero_padded(n, width) ==
    IF width = 0 THEN <<>>
    ELSE zero_padded(n \div 10, width - 1) \o <<DigitChars[(n % 10) + 1]>>

\* dt.replace(tzinfo=timezone(timedelta(hours=offset))).isoformat()
isoformat(dt, offset) ==
    zero_padded(dt.year, 4) \o <<"-">> \o zero_padded(dt.month, 2) \o <<"-">>
        \o zero_padded(dt.day, 2) \o <<"T">> \o zero_padded(dt.hour, 2) \o <<":">>
        \o zero_padded(dt.minute, 2) \o <<":", "0", "0">>
        \o (IF offset >= 0 THEN <<"+">> ELSE <<"-">>)
        \o zero_padded(IF offset >= 0 THEN offset ELSE -offset, 2) \o <<":", "0", "0">>

\* line 233 with the confidence left as it is
not_lowered(confidence) == confidence

\* line 233: result["confidence"] *= 0.8
lowered(confidence) == RatMul(confidence, <<4, 5>>)

(* _extract_datetime on the result of the generic extraction *)

\* the texts of an "updated_datetime" cell: prefix, time, separator, date,
\* trailing text
RawPrefixes == {<<>>, <<"I", "s", "s", "u", "e", "d", " ", "a", "t", " ">>, <<"I", "S", "S", "U", "E", "D", " ", "A", "T">>}

RawTimes == {<<"1", "1", ":", "0", "0", " ", "A", "M">>, <<"1", "2", ":", "0", "5", " ", "a", "m">>, <<"1", ":", "5", " ", "P", "M">>, <<"2", "3", ":", "0", "0">>, <<"1", "3", ":", "0", "0", " ", "P", "M">>}

RawDates == {<<"0", "4", " ", "D", "e", "c", "e", "m", "b", "e", "r", " ", "2", "0", "2", "5">>, <<"2", "9", " ", "f", "e", "b", "r", "u", "a", "r", "y", " ", "2", "0", "2", "4">>, <<"3", "0", " ", "F", "e", "b", "r", "u", "a", "r", "y", " ", "2", "0", "2", "5">>, <<"4", " ", "D", "e", "c", " ", "2", "0", "2", "5">>}

RawSuffixes == {<<>>, <<" ", "V", "a", "l", "i", "d", " ", "f", "o", "r", " ", "b", "r", "o", "a", "d", "c", "a", "s", "t">>}

RawValues ==
    {prefix \o time \o sep \o date \o suffix :
        prefix \in RawPrefixes, time \in RawTimes, sep \in {<<",", " ">>, <<" ">>},
        date \in RawDates, suffix \in RawSuffixes}
    \cup {<<"D", "e", "c", "e", "m", "b", "e", "r", " ", "4", ",", " ", "2", "0", "2", "5", " ", "1", "1", ":", "0", "0", " ", "A", "M">>, <<"I", "s", "s", "u", "e", "d", " ", "a", "t", " ", "D", "e", "c", "e", "m", "b", "e", "r", " ", "0", "4", ",", " ", "2", "0", "2", "5", " ", "1", "2", ":", "0", "0", " ", "p", "m", " ", "S", "y", "n", "o", "p", "s", "i", "s">>,
          <<"I", "s", "s", "u", "e", "d", " ", "a", "t">>, <<"s", "o", "o", "n">>}

\* what _extract_simple_field returns: no value with confidence 0.0, or a
\* value with the confidence of its header
FieldResults ==
    {[value |-> NULL, confidence |-> Zero]}
    \cup {[value |-> value, confidence |-> confidence] :
             value \in RawValues, confidence \in {One, <<7, 10>>}}

InitDatetime ==
    /\ dt_field \in FieldResults
    /\ dt_clean_val = <<>> /\ dt_tried = <<>> /\ dt_dt = NoTime
    /\ dt_result = NoField
    /\ pc = "call"
    /\ IdleButDatetime

\* lines 199-208: without a value the result is returned as it is
CleanValue ==
    /\ pc = "call"
    /\ IF dt_field.value = NULL \/ dt_field.value = <<>>
       THEN /\ dt_result' = dt_field
            /\ pc' = "done"
            /\ UNCHANGED dt_clean_val
       ELSE /\ dt_clean_val' = clean_val_of(dt_field.value)
            /\ pc' = "formats"
            /\ UNCHANGED dt_result
    /\ UNCHANGED <<dt_field, dt_tried, dt_dt, butDatetime>>

\* lines 218-223: one turn of the loop over the formats
TryFormat ==
    /\ pc = "formats"
    /\ dt_dt = NoTime
    /\ Len(dt_tried) < Len(formats)
    /\ dt_tried' = Append(dt_tried, Len(dt_tried) + 1)
    /\ dt_dt' = strptime(dt_clean_val, formats[Len(dt_tried) + 1])
    /\ UNCHANGED <<dt_field, dt_clean_val, dt_result, pc, butDatetime>>

\* lines 225-229
AddTimezone ==
    /\ pc = "formats"
    /\ dt_dt # NoTime
    /\ dt_result' = [value |-> isoformat(dt_dt, DEFAULT_TIMEZONE_OFFSET),
                     confidence |-> dt_field.confidence]
    /\ pc' = "done"
    /\ UNCHANGED <<dt_field, dt_clean_val, dt_tried, dt_dt, butDatetime>>

\* lines 230-233
KeepRaw ==
    /\ pc = "formats"
    /\ dt_dt = NoTime
    /\ Len(dt_tried) = Len(formats)
    /\ dt_result' = [value |-> dt_clean_val, confidence |-> lowered(dt_field.confidence)]
    /\ pc' = "done"
    /\ UNCHANGED <<dt_field, dt_clean_val, dt_tried, dt_dt, butDatetime>>

NextDatetime == CleanValue \/ TryFormat \/ AddTimezone \/ KeepRaw

SpecDatetime == InitDatetime /\ [][NextDatetime]_vars

\* the formats, by their place in the list, that parse the cleaned value
parsing_formats ==
    {k \in 1..Len(formats) : strptime(clean_val_of(dt_field.value), formats[k]) # NoTime}

\* C20: for a value of the generic extraction the formats are tried in list
\* order up to the first that parses; then the value is the ISO-8601 text of
\* that time with the offset +08:00 and the confidence is unchanged; when no
\* format parses, the value is the cleaned raw string and the confidence is
\* the generic one times 0.8.
C20_FormatsInOrder ==
    (pc = "done" /\ dt_field.value # NULL /\ dt_field.value # <<>>) =>
        IF parsing_formats # {}
        THEN LET first == CHOOSE k \in parsing_formats : \A h \in parsing_formats : k <= h
                 time == strptime(clean_val_of(dt_field.value), formats[first])
             IN  /\ dt_tried = [k \in 1..first |-> k]
                 /\ dt_result.value = isoformat(time, 8)
                 /\ Len(dt_result.value) = 25
                 /\ dt_result.value[5] = "-" /\ dt_result.value[8] = "-"
                 /\ dt_result.value[11] = "T"
                 /\ SubSeq(dt_result.value, 17, 25) = <<":", "0", "0", "+", "0", "8", ":", "0", "0">>
                 /\ dt_result.confidence = dt_field.confidence
        ELSE /\ dt_tried = [k \in 1..Len(formats) |-> k]
             /\ dt_result.value = clean_val_of(dt_field.value)
             /\ RatEq(dt_result.confidence, RatMul(dt_field.confidence, <<4, 5>>))
             /\ ~RatEq(dt_result.confidence, dt_field.confidence)

\* a value with a prefix and trailing text that the second format parses
C20_Witness ==
    /\ pc = "done"
    /\ dt_field = [value |-> <<"I", "s", "s", "u", "e", "d", " ", "a", "t", " ", "1", ":", "5", " ", "P", "M", " ", "0", "4", " ", "D", "e", "c", "e", "m", "b", "e", "r", " ", "2", "0", "2", "5", " ", "V", "a", "l", "i", "d", " ", "f", "o", "r", " ", "b", "r", "o", "a", "d", "c", "a", "s", "t">>,
                   confidence |-> <<7, 10>>]
    /\ dt_tried = <<1, 2>>
    /\ dt_result = [value |-> <<"2", "0", "2", "5", "-", "1", "2", "-", "0", "4", "T", "1", "3", ":", "0", "5", ":", "0", "0", "+", "0", "8", ":", "0", "0">>, confidence |-> <<7, 10>>]

----------------------------------------------------------------------------
(* parse_page on malformed geometry *)

MaxMalformedTokens == 2

\* a row and columns that share no area with it or only a border
DisjointRegions ==
    {[label |-> "table row", box |-> <<0, 0, 2, 2>>],
     [label |-> "table row", box |-> <<0, 2, 4, 4>>],
     [label |-> "table column", box |-> <<2, 0, 4, 4>>],
     [label |-> "table column", box |-> <<3, 0, 4, 4>>],
     [label |-> "table column", box |-> <<0, 0, 2, 4>>]}

\* tokens of zero or negative width or height, and two tokens with area
MalformedTokens ==
    {[text |-> <<"a">>, x0 |-> 1, top |-> 0, x1 |-> 1, bottom |-> 2],
     [text |-> <<"b">>, x0 |-> 2, top |-> 0, x1 |-> 1, bottom |-> 2],
     [text |-> <<"c">>, x0 |-> 0, top |-> 1, x1 |-> 2, bottom |-> 1],
     [text |-> <<"d">>, x0 |-> 2, top |-> 2, x1 |-> 0, bottom |-> 0],
     [text |-> <<"e">>, x0 |-> 0, top |-> 0, x1 |-> 2, bottom |-> 2],
     [text |-> <<"f">>, x0 |-> 2, top |-> 0, x1 |-> 4, bottom |-> 2]}

InitMalformed ==
    /\ mt_objects \in SeqsUpTo(DisjointRegions, MaxRegions)
    /\ mt_words \in SeqsUpTo(MalformedTokens, MaxMalformedTokens)
    /\ mt_rows = <<>> /\ mt_cols = <<>> /\ mt_grid = <<>>
    /\ mt_w = 0 /\ mt_all_tables = <<>>
    /\ pc = "call"
    /\ IdleButGrid

SpecMalformed == InitMalformed /\ [][NextGrid]_vars

\* the token's box has no width or no height
degenerate(word) == word.x1 <= word.x0 \/ word.bottom <= word.top

\* the row box and the column box of the cell share no area
empty_cell(cell) ==
    LET box == cell_box(mt_rows[cell[1]].box, mt_cols[cell[2]].box)
    IN  box[3] <= box[1] \/ box[4] <= box[2]

\* C21: on malformed geometry no ratio is a division by zero and no cell
\* index lies outside the grid; a token without width or height changes no
\* cell, and a cell whose row and column do not intersect stays empty.
C21_MalformedGeometry ==
    /\ [](pc \in {"words", "returned", "done"} =>
             /\ \A i \in 1..Len(mt_words) :
                   /\ \A cell \in Cells : cell_ratio(mt_words[i], cell)[2] # 0
                   /\ LET best == best_cell(w_box(mt_words[i]), mt_rows, mt_cols, NoBest)
                      IN  \/ best.best_r = 0 /\ best.best_c = 0
                          \/ <<best.best_r, best.best_c>> \in Cells
             /\ \A cell \in Cells : empty_cell(cell) => mt_grid[cell[1]][cell[2]] = <<>>)
    /\ [][(AssignWord /\ degenerate(mt_words[mt_w + 1])) => mt_grid' = mt_grid]_vars

\* a page with a cell of no area, a token without width and a token that
\* lies in a cell: only the last is in the grid
C21_Witness ==
    /\ pc = "done"
    /\ \E cell \in Cells : empty_cell(cell)
    /\ \E i \in 1..Len(mt_words) :
          degenerate(mt_words[i]) /\ (mt_words[i].x1 - mt_words[i].x0) * (mt_words[i].bottom - mt_words[i].top) = 0
    /\ \E cell \in Cells : mt_grid[cell[1]][cell[2]] = <<"e">>
    /\ \A cell \in Cells : mt_grid[cell[1]][cell[2]] \in {<<>>, <<"e">>}

----------------------------------------------------------------------------
(* extract_from_url (advisory_scraper.py): the PDF route and the HTML one  *)

LEVELS == <<"red", "orange", "yellow">>

empty_warnings == [red |-> <<>>, orange |-> <<>>, yellow |-> <<>>]

\* the code point order of the characters the names are written with
code_point(c) ==
    IF c = " " THEN 32
    ELSE IF \E i \in 1..26 : UPPER[i] = c
         THEN 64 + (CHOOSE i \in 1..26 : UPPER[i] = c)
    ELSE IF \E i \in 1..26 : LOWER[i] = c
         THEN 96 + (CHOOSE i \in 1..26 : LOWER[i] = c)
    ELSE 44

RECURSIVE text_less(_, _)
text_less(a, b) ==
    IF b = <<>> THEN FALSE
    ELSE IF a = <<>> THEN TRUE
    ELSE IF a[1] # b[1] THEN code_point(a[1]) < code_point(b[1])
    ELSE text_less(Tail(a), Tail(b))

RECURSIVE sorted(_)
sorted(texts) ==
    IF texts = {} THEN <<>>
    ELSE LET least == CHOOSE t \in texts : \A u \in texts \ {t} : text_less(t, u)
         IN <<least>> \o sorted(texts \ {least})

elements(list) == {list[i] : i \in 1..Len(list)}

\* list(dict.fromkeys(list)): the first occurrence of each element is kept
RECURSIVE unique(_)
unique(list) ==
    IF list = <<>> THEN <<>>
    ELSE LET front == unique(SubSeq(list, 1, Len(list) - 1))
             last == list[Len(list)]
         IN IF last \in elements(front) THEN front ELSE Append(front, last)

RECURSIVE spaces_from(_, _)
spaces_from(text, i) ==
    IF i <= Len(text) /\ IsSpace(text[i]) THEN spaces_from(text, i + 1) ELSE i

starts_at(text, i, word) ==
    /\ i + Len(word) - 1 <= Len(text)
    /\ SubSeq(text, i, i + Len(word) - 1) = word

\* the character U+2013
EN_DASH == "<en dash>"

\* re.search(low \s* [-|en dash] \s* high, text)
range_in(text, low, high) ==
    \E i \in 1..Len(text) :
        /\ starts_at(text, i, low)
        /\ LET d == spaces_from(text, i + Len(low))
           IN /\ d <= Len(text)
              /\ text[d] \in {"-", EN_DASH}
              /\ starts_at(text, spaces_from(text, d + 1), high)

warning_level(row) ==
    LET rainfall_col == IF row[1] # NULL /\ row[1] # <<>> THEN ToLower(row[1]) ELSE <<>>
    IN IF Contains(rainfall_col, <<">", "2", "0", "0">>) \/ Contains(rainfall_col, <<">", " ", "2", "0", "0">>)
       THEN "red"
       ELSE IF range_in(rainfall_col, <<"1", "0", "0">>, <<"2", "0", "0">>) THEN "orange"
       ELSE IF range_in(rainfall_col, <<"5", "0">>, <<"1", "0", "0">>) THEN "yellow"
       ELSE "<None>"

today_locs(row, valid) ==
    IF row[2] = NULL THEN <<>> ELSE parse_locations_text(row[2], valid).locations

RECURSIVE rows_into(_, _, _, _)
rows_into(table, k, warnings, valid) ==
    IF k > Len(table) THEN warnings
    ELSE LET row == table[k]
         IN IF Len(row) < 2 \/ warning_level(row) = "<None>"
            THEN rows_into(table, k + 1, warnings, valid)
            ELSE LET level == warning_level(row)
                 IN rows_into(table, k + 1,
                        [warnings EXCEPT ![level] = @ \o today_locs(row, valid)],
                        valid)

RECURSIVE tables_into(_, _, _, _)
tables_into(tables, t, warnings, valid) ==
    IF t > Len(tables) THEN warnings
    ELSE tables_into(tables, t + 1, rows_into(tables[t], 1, warnings, valid), valid)

first_row(table) ==
    LET cells == [j \in 1..Len(table[1]) |->
                     IF table[1][j] = NULL THEN <<>> ELSE table[1][j]]
    IN ToLower(interleave(cells, [j \in 1..(Len(cells) - 1) |-> Space]))

is_rainfall_table(table) ==
    /\ table # <<>>
    /\ table[1] # <<>>
    /\ \/ Contains(first_row(table), <<"r", "a", "i", "n", "f", "a", "l", "l">>)
       \/ Contains(first_row(table), <<"f", "o", "r", "e", "c", "a", "s", "t">>)

extract_rainfall_tables_from_pdf(pdf) ==
    IF ~pdf.chars \/ pdf.tables = <<>> THEN <<>>
    ELSE LET rainfall_tables == SelectSeq(pdf.tables, is_rainfall_table)
         IN IF rainfall_tables = <<>> THEN pdf.tables ELSE rainfall_tables

extract_rainfall_warnings_from_pdf(pdf, valid) ==
    LET tables == extract_rainfall_tables_from_pdf(pdf)
    IN IF tables = <<>> THEN NoWarnings
       ELSE LET warnings == tables_into(tables, 1, empty_warnings, valid)
            IN [level \in DOMAIN warnings |-> sorted(elements(warnings[level]))]

\* parse_rainfall_text from line 562 on: the text comes cut at its indicators
RECURSIVE segments_into(_, _, _)
segments_into(segments, i, warnings) ==
    IF i > Len(segments) THEN warnings
    ELSE segments_into(segments, i + 1,
             [warnings EXCEPT ![segments[i][1]] = @ \o unique(segments[i][2])])

parse_rainfall_text(segments) ==
    LET warnings == segments_into(segments, 1, empty_warnings)
    IN [level \in DOMAIN warnings |-> unique(warnings[level])]

extract_rainfall_warnings_from_html(page) ==
    IF page.segments = NULL THEN empty_warnings
    ELSE parse_rainfall_text(page.segments)

\* line 835 without the test of the lists
pdf_returned(warnings) == warnings # NoWarnings

\* line 835
pdf_successful(warnings) ==
    /\ warnings # NoWarnings
    /\ \E level \in DOMAIN warnings : Len(warnings[level]) > 0

format_for_output(warnings) == warnings

(* extract_from_url called on one source *)

MaxPdfRows == 2

PdfRows ==
    {<<<<">", "2", "0", "0", " ", "m", "m">>, Abra>>,
     <<<<"1", "0", "0", " ", "-", " ", "2", "0", "0", " ", "m", "m">>, Cebu \o <<",", " ">> \o Abra>>,
     <<<<"5", "0", "-", "1", "0", "0", " ", "m", "m">>, Dash>>,
     <<<<"5", "0", EN_DASH, "1", "0", "0">>, NULL>>,
     <<<<"R", "a", "i", "n", "f", "a", "l", "l", " ", "F", "o", "r", "e", "c", "a", "s", "t">>, <<"T", "o", "d", "a", "y">>>>,
     <<<<">", " ", "2", "0", "0">>>>}

PdfTables == SeqsUpTo(PdfRows, MaxPdfRows)

Pdfs ==
    {[chars |-> FALSE, tables |-> <<>>]}
        \cup {[chars |-> TRUE, tables |-> ts] : ts \in SeqsUpTo(PdfTables, 1)}
        \cup {[chars |-> TRUE,
               tables |-> << <<<<<<">", "2", "0", "0", " ", "m", "m">>, Abra>>>>,
                             <<<<<<"R", "a", "i", "n", "f", "a", "l", "l", " ", "F", "o", "r", "e", "c", "a", "s", "t">>, <<"T", "o", "d", "a", "y">>>>,
                               <<<<"5", "0", "-", "1", "0", "0", " ", "m", "m">>, Cebu>>>> >>],
              [chars |-> TRUE,
               tables |-> << <<<<<<">", "2", "0", "0", " ", "m", "m">>, Abra>>>>,
                             <<<<<<"1", "0", "0", " ", "-", " ", "2", "0", "0", " ", "m", "m">>, Abra>>, <<<<">", " ", "2", "0", "0">>, Cebu>>>> >>]}

AdvisorySegments ==
    {NULL, <<>>,
     << <<"red", <<Cebu>>>> >>,
     << <<"orange", <<>>>> >>,
     << <<"yellow", <<Abra, Abra>>>>, <<"yellow", <<Cebu, Abra>>>> >>}

Sources == {"local.pdf", "http.pdf", "page"}

InitAdvisory ==
    /\ ex_url \in Sources
    /\ ex_site \in [link : BOOLEAN, download : BOOLEAN, pdf : Pdfs,
                    segments : AdvisorySegments]
    /\ ex_pdf_url = FALSE /\ ex_pdf_path = FALSE
    /\ ex_warnings = NoWarnings /\ ex_source_type = "" /\ ex_calls = <<>>
    /\ ex_result = <<>>
    /\ pc = "call"
    /\ IdleButAdvisory

or_empty(warnings) == IF warnings = NoWarnings THEN empty_warnings ELSE warnings

\* lines 782-791
ExtractLocalPdf ==
    /\ pc = "call" /\ ex_url = "local.pdf"
    /\ ex_warnings' = or_empty(extract_rainfall_warnings_from_pdf(ex_site.pdf, Gazetteer))
    /\ ex_source_type' = "PDF (local)"
    /\ ex_calls' = Append(ex_calls, "extract_rainfall_warnings_from_pdf")
    /\ pc' = "format"
    /\ UNCHANGED <<ex_url, ex_site, ex_pdf_url, ex_pdf_path, ex_result, butAdvisory>>

\* lines 793-798, 814-816
DownloadDirectPdf ==
    /\ pc = "call" /\ ex_url = "http.pdf"
    /\ ex_calls' = Append(ex_calls, "download_pdf")
    /\ IF ex_site.download
       THEN /\ ex_pdf_path' = "downloaded"
            /\ pc' = "direct"
            /\ UNCHANGED <<ex_warnings, ex_source_type>>
       ELSE /\ ex_warnings' = empty_warnings
            /\ ex_source_type' = "Failed"
            /\ pc' = "format"
            /\ UNCHANGED ex_pdf_path
    /\ UNCHANGED <<ex_url, ex_site, ex_pdf_url, ex_result, butAdvisory>>

\* lines 799-813
ExtractDirectPdf ==
    /\ pc = "direct"
    /\ LET warnings == extract_rainfall_warnings_from_pdf(ex_site.pdf, Gazetteer)
       IN /\ ex_warnings' = or_empty(warnings)
          /\ ex_source_type' = IF warnings = NoWarnings
                               THEN "PDF (image-based, no HTML fallback)"
                               ELSE "PDF (downloaded)"
    /\ ex_calls' = Append(ex_calls, "extract_rainfall_warnings_from_pdf")
    /\ ex_pdf_path' = "deleted"
    /\ pc' = "format"
    /\ UNCHANGED <<ex_url, ex_site, ex_pdf_url, ex_result, butAdvisory>>

\* lines 818-825
ExtractPdfUrl ==
    /\ pc = "call" /\ ex_url = "page"
    /\ ex_pdf_url' = ex_site.link
    /\ ex_calls' = Append(ex_calls, "extract_pdf_url_from_page")
    /\ pc' = IF ex_site.link THEN "download" ELSE "fallback"
    /\ UNCHANGED <<ex_url, ex_site, ex_pdf_path, ex_warnings, ex_source_type,
                   ex_result, butAdvisory>>

\* lines 826-829
DownloadPdf ==
    /\ pc = "download"
    /\ ex_pdf_path' = IF ex_site.download THEN "downloaded" ELSE FALSE
    /\ ex_calls' = Append(ex_calls, "download_pdf")
    /\ pc' = IF ex_site.download THEN "pdf" ELSE "fallback"
    /\ UNCHANGED <<ex_url, ex_site, ex_pdf_url, ex_warnings, ex_source_type,
                   ex_result, butAdvisory>>

\* lines 830-849
ExtractFromPdf ==
    /\ pc = "pdf"
    /\ LET warnings == extract_rainfall_warnings_from_pdf(ex_site.pdf, Gazetteer)
       IN IF pdf_successful(warnings)
          THEN /\ ex_warnings' = warnings
               /\ ex_source_type' = "PDF (text-based)"
          ELSE /\ ex_warnings' = NoWarnings
               /\ UNCHANGED ex_source_type
    /\ ex_calls' = Append(ex_calls, "extract_rainfall_warnings_from_pdf")
    /\ ex_pdf_path' = "deleted"
    /\ pc' = "fallback"
    /\ UNCHANGED <<ex_url, ex_site, ex_pdf_url, ex_result, butAdvisory>>

\* lines 851-855
ExtractFromHtml ==
    /\ pc = "fallback" /\ ex_warnings = NoWarnings
    /\ ex_warnings' = extract_rainfall_warnings_from_html(ex_site)
    /\ ex_source_type' = "HTML (DOM parsing)"
    /\ ex_calls' = Append(ex_calls, "extract_rainfall_warnings_from_html")
    /\ pc' = "format"
    /\ UNCHANGED <<ex_url, ex_site, ex_pdf_url, ex_pdf_path, ex_result, butAdvisory>>

\* lines 857-869
FormatResult ==
    /\ pc = "format" \/ (pc = "fallback" /\ ex_warnings # NoWarnings)
    /\ ex_result' =
           [source_url |-> ex_url,
            extraction_method |-> IF ex_source_type # "" THEN ex_source_type
                                  ELSE "Unknown",
            rainfall_warnings |-> IF DOMAIN ex_warnings # {}
                                  THEN format_for_output(ex_warnings)
                                  ELSE empty_warnings]
    /\ pc' = "done"
    /\ UNCHANGED <<ex_url, ex_site, ex_pdf_url, ex_pdf_path, ex_warnings,
                   ex_source_type, ex_calls, butAdvisory>>

NextAdvisory ==
    \/ ExtractLocalPdf \/ DownloadDirectPdf \/ ExtractDirectPdf \/ ExtractPdfUrl
    \/ DownloadPdf \/ ExtractFromPdf \/ ExtractFromHtml \/ FormatResult

SpecAdvisory == InitAdvisory /\ [][NextAdvisory]_vars

invoked(name) == \E i \in 1..Len(ex_calls) : ex_calls[i] = name

\* the PDF of the page is reached and its tables hold a location of some level
pdf_locations(site) ==
    /\ site.link /\ site.download /\ site.pdf.chars
    /\ extract_rainfall_tables_from_pdf(site.pdf) # <<>>
    /\ \E level \in {"red", "orange", "yellow"} :
           extract_rainfall_warnings_from_pdf(site.pdf, Gazetteer)[level] # <<>>

\* C22: for a page URL the PDF route is attempted first and the HTML
\* extractor runs if and only if the PDF route produced no location; when
\* the PDF yields a location the HTML extractor is never invoked and the
\* result carries the PDF locations; every result has a rainfall_warnings
\* record with the keys red, orange and yellow.
C22_PdfFirstHtmlFallback ==
    /\ (ex_url = "page" /\ ex_calls # <<>>)
           => ex_calls[1] = "extract_pdf_url_from_page"
    /\ (ex_url = "page" /\ invoked("extract_rainfall_warnings_from_html"))
           => ~pdf_locations(ex_site)
    /\ (ex_url = "page" /\ pc = "done")
           => /\ invoked("extract_rainfall_warnings_from_html")
                  <=> ~pdf_locations(ex_site)
              /\ pdf_locations(ex_site)
                  => ex_result.rainfall_warnings =
                         extract_rainfall_warnings_from_pdf(ex_site.pdf, Gazetteer)
    /\ pc = "done" => DOMAIN ex_result.rainfall_warnings = {"red", "orange", "yellow"}

C22_Witness ==
    /\ pc = "done" /\ ex_url = "page"
    /\ ex_calls = <<"extract_pdf_url_from_page", "download_pdf",
                    "extract_rainfall_warnings_from_pdf",
                    "extract_rainfall_warnings_from_html">>
    /\ extract_rainfall_warnings_from_pdf(ex_site.pdf, Gazetteer) = empty_warnings
    /\ ex_result.rainfall_warnings.red = <<Cebu>>

----------------------------------------------------------------------------
(* _parse_format2_table called on the lines of one stacked table           *)

MaxBlockParts == 3

BlockParts == {Abra, Cebu, <<"X", "y", "z">>, <<"C", "a", "r", "a", "g", "a">>, <<"A">>}

BlockSeparators == {<<",", " ">>, <<" ", "a", "n", "d", " ">>}

BlockTextsUpTo(parts) ==
    UNION {{interleave(ps, ss) : ps \in [1..n -> BlockParts],
                                 ss \in [1..(n - 1) -> BlockSeparators]}
           : n \in 1..parts}

InitStacked ==
    /\ tb_text \in {join(<<<<"2">>, block>>, <<"\n">>) : block \in BlockTextsUpTo(MaxBlockParts)}
    /\ tb_is_format1 = "unset"
    /\ tb_signals = <<>>
    /\ tb_rainfall = <<>>
    /\ tb_result = <<>>
    /\ pc = "call"
    /\ IdleButBulletin

\* line 461: _parse_format2_table(lines, result)
ParseFormat2Table ==
    /\ pc = "call"
    /\ tb_signals' = parse_format2_table(split_on(tb_text, "\n"), no_warnings(5),
                                         location_dict)
    /\ tb_is_format1' = "False"
    /\ pc' = "parsed"
    /\ UNCHANGED <<tb_text, tb_rainfall, tb_result, butBulletin>>

NextStacked == ParseFormat2Table

SpecStacked == InitStacked /\ [][NextStacked]_vars

\* the cleaned block text of each signal number of the table
block_texts == extract_blocks(tb_text, signal_matches(tb_text), 1, <<>>)

\* the non-empty parts of a block text between its commas, of at least
\* shortest characters, in textual order
comma_parts(text, shortest) ==
    SelectSeq([i \in 1..Len(split_commas(text)) |-> Strip(split_commas(text)[i])],
              LAMBDA part : Len(part) >= shortest)

parts_in(text, shortest, island_group) ==
    SelectSeq(comma_parts(text, shortest),
              LAMBDA part : find_island_group(part, location_dict) = island_group)

\* what the record of a signal holds for its block text
by_classification(text, shortest) ==
    IF \A island_group \in ISLAND_GROUPS : parts_in(text, shortest, island_group) = <<>>
    THEN [island_group \in ISLAND_GROUPS |->
             IF island_group = "Luzon" THEN text ELSE NULL]
    ELSE [island_group \in ISLAND_GROUPS |->
             IF parts_in(text, shortest, island_group) = <<>> THEN NULL
             ELSE join(parts_in(text, shortest, island_group), <<",", " ">>)]

stored_as(shortest) ==
    pc = "parsed" =>
        \A sig_num \in DOMAIN block_texts :
            block_texts[sig_num] # <<>> =>
                \A island_group \in ISLAND_GROUPS :
                    tb_signals[sig_num][island_group]
                        = by_classification(block_texts[sig_num], shortest)[island_group]

\* C23: in the stacked layout the entry of a signal number for a region is
\* the comma-joined list, in textual order, of the parts of its cleaned
\* block text that the gazetteer classifies to that region; when no part is
\* classified the whole block text is under Luzon and the others are null.
C23_EveryPartClassified == stored_as(1)

\* C23, amended: the same for the parts of at least two characters; a
\* one-character part is passed over before the gazetteer is asked.
C23_PartsOfTwoCharacters == stored_as(2)

C23_Witness ==
    /\ pc = "parsed"
    /\ tb_text = <<"2", "\n">> \o Cebu \o <<",", " ">> \o <<"X", "y", "z">>
                      \o <<" ", "a", "n", "d", " ">> \o Cebu
    /\ block_texts[2] = <<"C", "e", "b", "u", ",", " ", "X", "y", "z", ",", " ", "C", "e", "b", "u">>
    /\ tb_signals[2].Luzon = NULL
    /\ tb_signals[2].Visayas = <<"C", "e", "b", "u", ",", " ", "C", "e", "b", "u">>
    /\ tb_signals[2].Mindanao = NULL

----------------------------------------------------------------------------
(* _parse_locations_with_islands called on one location text               *)

MaxLocationTokens == 3

LocationTokens ==
    {Abra, Cebu, <<"C", "a", "r", "a", "g", "a">>, <<"X", "y", "z">>, Dash, <<"n", "o", "r", "t", "h", "e", "a", "s", "t", "e", "r", "n", " ", "M", "i", "n", "d", "a", "n", "a", "o">>,
     <<"r", "e", "s", "t", " ", "o", "f", " ", "X", "y", "z">>, <<"t", "h", "e", " ", "A", "b", "r", "a">>,
     Abra \o <<" ", "(">> \o <<"X", "y", "z", ",", " ", "C", "e", "b", "u">> \o <<")">>}

LocationListsUpTo(tokens) ==
    UNION {{interleave(ts, [i \in 1..(n - 1) |-> <<",", " ">>]) :
               ts \in [1..n -> LocationTokens]}
           : n \in 1..tokens}

InitIslands ==
    /\ wi_text \in LocationListsUpTo(MaxLocationTokens)
    /\ wi_parts = <<>>
    /\ wi_result = <<>>
    /\ pc = "call"
    /\ IdleButIslands

\* lines 744-829
ParseLocationsWithIslands ==
    /\ pc = "call"
    /\ wi_parts' = split_locations_respecting_parentheses(Strip(CollapseWs(wi_text)))
    /\ wi_result' = parse_locations_with_islands(wi_text, location_dict)
    /\ pc' = "done"
    /\ UNCHANGED <<wi_text, butIslands>>

NextIslands == ParseLocationsWithIslands

SpecIslands == InitIslands /\ [][NextIslands]_vars

\* the tokens of the text that resolve to key, in input order
resolved_to(key) ==
    SelectSeq(wi_parts, LAMBDA token : island_of(token, location_dict) = key)

\* C24: each of Luzon, Visayas, Mindanao and Other holds the comma-joined
\* list, in input order, of exactly the tokens resolved to that key (null
\* when there is none); a token that resolves to nothing is under no key.
C24_ExactlyResolvedTokens ==
    pc = "done" =>
        \A key \in {"Luzon", "Visayas", "Mindanao", "Other"} :
            wi_result[key] = IF resolved_to(key) = <<>> THEN NULL
                             ELSE join(resolved_to(key), <<",", " ">>)

\* the same for the texts of which some token resolves
C24_WhenSomeTokenResolves ==
    (pc = "done" /\ \E i \in 1..Len(wi_parts) :
                        island_of(wi_parts[i], location_dict) # NoIsland)
        => \A key \in {"Luzon", "Visayas", "Mindanao", "Other"} :
               wi_result[key] = IF resolved_to(key) = <<>> THEN NULL
                                ELSE join(resolved_to(key), <<",", " ">>)

----------------------------------------------------------------------------
(* _split_locations_respecting_parentheses called on one text              *)

MaxSplitLen == 4

SplitChars == {"a", " ", ",", "(", ")"}

InitSplit ==
    /\ wi_text \in TextsUpTo(SplitChars, MaxSplitLen)
    /\ wi_parts = <<>>
    /\ wi_result = <<>>
    /\ pc = "call"
    /\ IdleButIslands

\* lines 838-861
SplitLocations ==
    /\ pc = "call"
    /\ wi_parts' = split_locations_respecting_parentheses(wi_text)
    /\ pc' = "split"
    /\ UNCHANGED <<wi_text, wi_result, butIslands>>

NextSplit == SplitLocations

SpecSplit == InitSplit /\ [][NextSplit]_vars

\* the number of parentheses open after the first k characters of text; a
\* closing parenthesis that has no opening one closes nothing
RECURSIVE open_groups(_, _)
open_groups(text, k) ==
    IF k = 0 THEN 0
    ELSE IF text[k] = "(" THEN open_groups(text, k - 1) + 1
    ELSE IF text[k] = ")" THEN Max(open_groups(text, k - 1) - 1, 0)
    ELSE open_groups(text, k - 1)

outside_commas(text) ==
    {k \in 1..Len(text) : text[k] = "," /\ open_groups(text, k) = 0}

\* the texts between the commas outside parentheses, from position from on
RECURSIVE between_commas(_, _)
between_commas(text, from) ==
    LET later == {k \in outside_commas(text) : k >= from}
        next == CHOOSE k \in later : \A h \in later : k <= h
    IN  IF later = {} THEN <<SubSeq(text, from, Len(text))>>
        ELSE <<SubSeq(text, from, next - 1)>> \o between_commas(text, next + 1)

tokens_outside_parentheses(text) ==
    SelectSeq([i \in 1..Len(between_commas(text, 1)) |-> Strip(between_commas(text, 1)[i])],
              LAMBDA token : token # <<>>)

\* C25: the text is split at exactly the commas not enclosed in a "( ... )"
\* group, also when a closing parenthesis has no opening one; empty tokens
\* are omitted and the tokens keep their textual order.
C25_SplitOutsideParentheses ==
    pc = "split" => wi_parts = tokens_outside_parentheses(wi_text)

\* the same for the texts in which every closing parenthesis has its opening one
C25_WhenParenthesesOpenFirst ==
    (pc = "split" /\ \A k \in 1..Len(wi_text) :
                        wi_text[k] = ")" => open_groups(wi_text, k - 1) > 0)
        => wi_parts = tokens_outside_parentheses(wi_text)

----------------------------------------------------------------------------
(* _parse_format1_table called on the lines of one signal row              *)

ColumnHeader == <<"T", "C", "W", "S", " ", "N", "o", ".", " ", "L", "u", "z", "o", "n", " ", "V", "i", "s", "a", "y", "a", "s", " ", "M", "i", "n", "d", "a", "n", "a", "o">>

\* the entries of the Luzon, the Visayas and the Mindanao column of a row
ColumnEntries ==
    <<{Dash, Abra, <<"B", "a", "t", "a", "n", "e", "s">>}, {Dash, Cebu, <<"L", "e", "y", "t", "e">>}, {Dash, <<"C", "a", "r", "a", "g", "a">>, <<"S", "u", "l", "u">>}>>

\* the entries of a row stand on one line or on a line each
EntrySeparators == {Space, <<"\n">>}

SignalNumbers == {<<"1">>, <<"2">>, <<"3">>, <<"4">>, <<"5">>}

ColumnRows ==
    {join(<<ColumnHeader, n, join(<<l, v, m>>, sep)>>, <<"\n">>) :
        n \in SignalNumbers, l \in ColumnEntries[1], v \in ColumnEntries[2],
        m \in ColumnEntries[3], sep \in EntrySeparators}

InitColumns ==
    /\ tb_text \in ColumnRows
    /\ tb_is_format1 = "unset"
    /\ tb_signals = <<>>
    /\ tb_rainfall = <<>>
    /\ tb_result = <<>>
    /\ pc = "call"
    /\ IdleButBulletin

\* line 197: _parse_format1_table(lines, header_idx, result)
ParseFormat1Table ==
    /\ pc = "call"
    /\ tb_signals' = parse_format1_table(split_on(tb_text, "\n"), 1, no_warnings(5))
    /\ tb_is_format1' = "True"
    /\ pc' = "columns"
    /\ UNCHANGED <<tb_text, tb_rainfall, tb_result, butBulletin>>

NextColumns == ParseFormat1Table

SpecColumns == InitColumns /\ [][NextColumns]_vars

\* the signal number of the row and its three entries, as they were written
row_signal == signal_line(split_on(tb_text, "\n")[2])

row_entries ==
    split_words(SubSeq(tb_text, Len(ColumnHeader) + 4, Len(tb_text)))

\* C26: the text of the k-th column of a signal row is stored under the
\* k-th of Luzon, Visayas, Mindanao, and a column holding "-" leaves its
\* region null, for every combination of empty and non-empty columns.
C26_ColumnToRegion ==
    pc = "columns" =>
        \A k \in 1..3 :
            tb_signals[row_signal][<<"Luzon", "Visayas", "Mindanao">>[k]]
                = IF row_entries[k] = Dash THEN NULL ELSE row_entries[k]

\* the same for the rows whose Visayas and Mindanao columns are both empty
C26_WhenOnlyLuzon ==
    (pc = "columns" /\ row_entries[2] = Dash /\ row_entries[3] = Dash)
        => \A k \in 1..3 :
               tb_signals[row_signal][<<"Luzon", "Visayas", "Mindanao">>[k]]
                   = IF row_entries[k] = Dash THEN NULL ELSE row_entries[k]

----------------------------------------------------------------------------
(* analyze_pdf_and_advisory_parallel (modular/main.py)                     *)

RAINFALL_TAGS ==
    <<"rainfall_warning_tags1", "rainfall_warning_tags2", "rainfall_warning_tags3">>

\* scrape_and_extract raises
Raises == [raises |-> TRUE]

\* lines 102-118: fetch_live_advisory_data
fetch_live_advisory_data(scrape) ==
    IF scrape = Raises THEN NoData
    ELSE IF scrape # NoData /\ DOMAIN scrape # {} /\ "rainfall_warnings" \in DOMAIN scrape
    THEN scrape.rainfall_warnings
    ELSE NoData

\* advisory_data.get(level, [])
get_level(advisory_data, level) ==
    IF level \in DOMAIN advisory_data THEN advisory_data[level] ELSE <<>>

\* line 146
advisory_has_locations(advisory_data) ==
    /\ advisory_data # NoData
    /\ DOMAIN advisory_data # {}
    /\ \E level \in {"red", "orange", "yellow"} : get_level(advisory_data, level) # <<>>

\* lines 146-150 without the else branch of lines 151-156
merged_when_locations(pdf_data, advisory_data) ==
    IF advisory_has_locations(advisory_data)
    THEN [key \in DOMAIN pdf_data \cup {RAINFALL_TAGS[k] : k \in 1..3} |->
             IF \E k \in 1..3 : RAINFALL_TAGS[k] = key
             THEN get_level(advisory_data,
                            LEVELS[CHOOSE k \in 1..3 : RAINFALL_TAGS[k] = key])
             ELSE pdf_data[key]]
    ELSE pdf_data

\* lines 146-156: pdf_data with its three rainfall tags set
merged(pdf_data, advisory_data) ==
    [key \in DOMAIN pdf_data \cup {RAINFALL_TAGS[k] : k \in 1..3} |->
        IF \E k \in 1..3 : RAINFALL_TAGS[k] = key
        THEN IF advisory_has_locations(advisory_data)
             THEN get_level(advisory_data,
                            LEVELS[CHOOSE k \in 1..3 : RAINFALL_TAGS[k] = key])
             ELSE <<>>
        ELSE pdf_data[key]]

(* analyze_pdf_and_advisory_parallel called on one source *)

\* what TyphoonBulletinExtractor.extract_from_pdf gives analyze_pdf to return
PdfData ==
    {[typhoon_location_text |-> <<"n", "e", "a", "r", " ", "A", "b", "r", "a">>,
      signal_warning_tags1 |-> [NoIslands EXCEPT !.Luzon = Abra],
      rainfall_warning_tags1 |-> NoIslands,
      rainfall_warning_tags2 |-> NoIslands,
      rainfall_warning_tags3 |-> NoIslands],
     [typhoon_location_text |-> NULL,
      signal_warning_tags1 |-> NoIslands,
      rainfall_warning_tags1 |-> [NoIslands EXCEPT !.Visayas = Cebu],
      rainfall_warning_tags2 |-> NoIslands,
      rainfall_warning_tags3 |-> NoIslands],
     [typhoon_location_text |-> <<"n", "e", "a", "r", " ", "C", "e", "b", "u">>]}

Analyses == {NoData} \cup PdfData

AdvisoryWarnings ==
    {empty_warnings,
     [empty_warnings EXCEPT !.red = <<Cebu>>],
     [empty_warnings EXCEPT !.yellow = <<Abra, Cebu>>],
     [red |-> <<Abra>>, orange |-> <<Cebu>>, yellow |-> <<<<"C", "a", "r", "a", "g", "a">>>>]}

Scrapes ==
    {Raises, NoData}
        \cup {[source_url |-> "weather-advisory", extraction_method |-> "Unknown",
               rainfall_warnings |-> w] : w \in AdvisoryWarnings}

InitParallel ==
    /\ pp_analysis \in Analyses
    /\ pp_scrape \in Scrapes
    /\ pp_pdf_future = Pending /\ pp_advisory_future = Pending
    /\ pp_finished = <<>> /\ pp_pdf_data = NoData /\ pp_advisory_data = NoData
    /\ pp_result = Unset
    /\ pc = "call"
    /\ IdleButParallel

\* lines 131-137: both tasks are handed to the pool
SubmitTasks ==
    /\ pc = "call"
    /\ pc' = "pdf_future.result"
    /\ UNCHANGED <<ppVars, butParallel>>

\* the analyze_pdf task ends and sets its future
PdfTaskEnds ==
    /\ pc # "call" /\ ~pp_pdf_future.done
    /\ pp_pdf_future' = [done |-> TRUE, value |-> pp_analysis]
    /\ pp_finished' = Append(pp_finished, "pdf")
    /\ UNCHANGED <<pp_analysis, pp_scrape, pp_advisory_future, pp_pdf_data,
                   pp_advisory_data, pp_result, pc, butParallel>>

\* the fetch_live_advisory_data task ends and sets its future
AdvisoryTaskEnds ==
    /\ pc # "call" /\ ~pp_advisory_future.done
    /\ pp_advisory_future' = [done |-> TRUE, value |-> fetch_live_advisory_data(pp_scrape)]
    /\ pp_finished' = Append(pp_finished, "advisory")
    /\ UNCHANGED <<pp_analysis, pp_scrape, pp_pdf_future, pp_pdf_data,
                   pp_advisory_data, pp_result, pc, butParallel>>

\* line 140: pdf_data = pdf_future.result()
PdfResult ==
    /\ pc = "pdf_future.result" /\ pp_pdf_future.done
    /\ pp_pdf_data' = pp_pdf_future.value
    /\ pc' = "advisory_future.result"
    /\ UNCHANGED <<pp_analysis, pp_scrape, pp_pdf_future, pp_advisory_future,
                   pp_finished, pp_advisory_data, pp_result, butParallel>>

\* line 141: advisory_data = advisory_future.result(); the pool is left
AdvisoryResult ==
    /\ pc = "advisory_future.result" /\ pp_advisory_future.done
    /\ pp_advisory_data' = pp_advisory_future.value
    /\ pc' = "merge"
    /\ UNCHANGED <<pp_analysis, pp_scrape, pp_pdf_future, pp_advisory_future,
                   pp_finished, pp_pdf_data, pp_result, butParallel>>

\* lines 143-158
MergeAdvisory ==
    /\ pc = "merge"
    /\ pp_result' = IF pp_pdf_data = NoData \/ DOMAIN pp_pdf_data = {} THEN NoData
                    ELSE merged(pp_pdf_data, pp_advisory_data)
    /\ pc' = "done"
    /\ UNCHANGED <<pp_analysis, pp_scrape, pp_pdf_future, pp_advisory_future,
                   pp_finished, pp_pdf_data, pp_advisory_data, butParallel>>

NextParallel ==
    \/ SubmitTasks \/ PdfTaskEnds \/ AdvisoryTaskEnds \/ PdfResult \/ AdvisoryResult
    \/ MergeAdvisory

SpecParallel == InitParallel /\ [][NextParallel]_vars

\* the advisory of the source holds a location
advisory_locations ==
    /\ pp_scrape \in Scrapes \ {Raises, NoData}
    /\ \E level \in {"red", "orange", "yellow"} : pp_scrape.rainfall_warnings[level] # <<>>

\* C27: the result is built only after both tasks have finished, whatever
\* their order, and is the same for both orders: None exactly when the PDF
\* analysis returned no data; otherwise the three rainfall tags are the
\* advisory's red, orange and yellow lists when the advisory holds a
\* location and three empty lists when it failed or is empty, and every
\* other field of the PDF data is as the analysis returned it.
C27_BothTasksAwaited ==
    /\ pc \in {"merge", "done"} => pp_pdf_future.done /\ pp_advisory_future.done
    /\ pc = "done" =>
          /\ pp_result = NoData <=> pp_analysis \notin PdfData
          /\ pp_analysis \in PdfData =>
                /\ DOMAIN pp_result = DOMAIN pp_analysis \cup {RAINFALL_TAGS[k] : k \in 1..3}
                /\ \A key \in DOMAIN pp_analysis :
                       (\A k \in 1..3 : RAINFALL_TAGS[k] # key)
                           => pp_result[key] = pp_analysis[key]
                /\ advisory_locations =>
                       /\ pp_result.rainfall_warning_tags1 = pp_scrape.rainfall_warnings.red
                       /\ pp_result.rainfall_warning_tags2 = pp_scrape.rainfall_warnings.orange
                       /\ pp_result.rainfall_warning_tags3 = pp_scrape.rainfall_warnings.yellow
                /\ ~advisory_locations =>
                       \A k \in 1..3 : pp_result[RAINFALL_TAGS[k]] = <<>>

C27_Witness ==
    /\ pc = "done"
    /\ pp_finished = <<"advisory", "pdf">>
    /\ pp_analysis \in PdfData
    /\ pp_analysis.typhoon_location_text = NULL
    /\ pp_result.rainfall_warning_tags1 = <<>>
    /\ pp_result.rainfall_warning_tags3 = <<Abra, Cebu>>

----------------------------------------------------------------------------
(* _extract_signals run on rows with more than one TCWS anchor             *)

MaxWindowRows == 7

\* an anchor row with Luzon alone, one with Visayas and Mindanao, a signal row
WindowRowKinds ==
    {<<<<"T", "C", "W", "S">>, <<"L", "u", "z", "o", "n">>>>,
     <<<<"T", "C", "W", "S">>, Dash, <<"V", "i", "s", "a", "y", "a", "s">>, <<"M", "i", "n", "d", "a", "n", "a", "o">>>>,
     <<<<"1">>, Abra, Dash, Dash>>}

InitWindows ==
    /\ sg_rows \in UNION {[1..n -> WindowRowKinds] : n \in 0..MaxWindowRows}
    /\ sg_col_map = NoColumns
    /\ sg_i = 0
    /\ sg_extracted = <<>>
    /\ pc = "call"
    /\ IdleButSignals

SpecWindows == InitWindows /\ [][NextSignals]_vars

\* row a holds a cell that matches the TCWS aliases
anchor_row(a) ==
    \E c \in 1..Len(sg_rows[a]) :
        RatGT(tcws_confidence[clean_row(sg_rows[a])[c]], AnchorFloor)

\* the anchor row and the 4 rows after it
window_rows(a) == a..Min(a + 4, Len(sg_rows))

\* column k of row r names the region
names_region(r, k, region) ==
    /\ k \in 1..Len(sg_rows[r])
    /\ Contains(clean_row(sg_rows[r])[k], ToLower(RegionText[region]))

one_window(rows_allowed) ==
    pc \in {"rows", "done"} /\ Len(sg_rows) <= rows_allowed =>
        /\ sg_i # 0 =>
              \E a \in 1..Len(sg_rows) :
                  /\ anchor_row(a)
                  /\ \A region \in DOMAIN sg_col_map :
                         \E r \in window_rows(a) :
                             names_region(r, sg_col_map[region], region)
        /\ (\A a \in 1..Len(sg_rows) :
                anchor_row(a) =>
                    \E region \in DOMAIN sg_col_map :
                        \A r \in window_rows(a) :
                            \A k \in 1..Len(sg_rows[r]) : ~names_region(r, k, region))
               => sg_extracted = <<>>

\* C28: the three region columns used to read the signal rows all come from
\* rows inside the window of one and the same TCWS anchor row; a region
\* found in the window of an earlier anchor that lacked a region is not
\* carried over, and with no window holding all three regions the signal
\* table is empty.
C28_OneAnchorWindow == one_window(MaxWindowRows)

\* the same for the lists of at most five rows, where the window of the
\* first anchor reaches the last row
C28_WithinFiveRows == one_window(5)

----------------------------------------------------------------------------
(* _parse_rainfall_section: the occurrences that give a location text      *)

\* lines 692-717: the location text of the occurrence that ends before
\* position search_start, NULL when no location keyword follows
location_text_after(section, search_start) ==
    LET remaining_text == SubSeq(section, search_start,
                                 Min(search_start + KeywordWindow - 1, Len(section)))
        location_start == search_start + keyword_end(remaining_text) - 1
        tail == SubSeq(section, location_start, Len(section))
        periods == {k \in 1..Len(tail) : tail[k] = "."}
        cut == IF periods # {}
               THEN SubSeq(tail, 1, (CHOOSE k \in periods : \A h \in periods : k <= h) - 1)
               ELSE SubSeq(tail, 1, Min(NoPeriodLimit, Len(tail)))
    IN  IF keyword_end(remaining_text) = 0 THEN NULL
        ELSE Strip(split_on(Strip(cut), "\n")[1])

\* the occurrences of the level's patterns that give a location text
with_location_text(level) ==
    {m \in level_matches(rf_section, level) :
        location_text_after(rf_section, m.end) \notin {NULL, <<>>}}

\* the occurrences of the level's patterns followed by a location keyword
\* and an empty location text
with_empty_text(level) ==
    {m \in level_matches(rf_section, level) :
        location_text_after(rf_section, m.end) = <<>>}

populated(level) == rf_out[level] # NoIslands

\* C29: a level is populated only when some occurrence of its patterns
\* gives a non-empty location text, and an occurrence whose location text
\* is empty does not end the search: the level is populated whenever some
\* occurrence gives a non-empty location text.
C29_SearchGoesOn ==
    pc = "done" =>
        \A level \in 1..3 : populated(level) <=> with_location_text(level) # {}

\* the first half alone: a populated level has an occurrence with a
\* non-empty location text
C29_PopulatedFromText ==
    pc = "done" =>
        \A level \in 1..3 : populated(level) => with_location_text(level) # {}

\* without an occurrence of empty location text the search does go on past
\* the occurrences that no keyword follows
C29_WhenNoEmptyText ==
    pc = "done" =>
        \A level \in 1..3 :
            with_empty_text(level) = {} =>
                (populated(level) <=> with_location_text(level) # {})

----------------------------------------------------------------------------
(* find_island_group on names that are empty after trimming                *)

\* C30: find_island_group returns None for every name that is empty after
\* trimming, the empty string and the names of whitespace alone, whatever
\* the gazetteer holds.
C30_BlankNameIsNull ==
    pc = "done" /\ Strip(lm_location_name) = <<>> => lm_result = NoIsland

\* the empty string is answered with None
C30_EmptyNameIsNull ==
    pc = "done" /\ lm_location_name = <<>> => lm_result = NoIsland

\* a name of whitespace alone is answered with the island group of the
\* first entry of the gazetteer, and with that of the first region when
\* the gazetteer is empty
C30_WhitespaceNameIsFirst ==
    pc = "done" /\ lm_location_name # <<>> /\ Strip(lm_location_name) = <<>> =>
        lm_result = IF lm_location_dict # <<>> THEN lm_location_dict[1].island
                    ELSE REGION_MAPPING[1].island

====
